---------------------------- MODULE Spec2Model ----------------------------
(***************************************************************************)
(* Model of the job-application assistant:                                 *)
(*   - the Telegram dispatcher  (infra/telegram/bot_listener.py),          *)
(*   - the application orchestrator and its services                       *)
(*     (domain/services/job_application.py, account_flow.py, captcha.py,   *)
(*      work_authorization.py, debug.py),                                  *)
(*   - the LLM-driven agent loop (infra/agent/browser_agent.py).           *)
(* Spec      : dispatcher + orchestrator, driven by inbound chat updates.  *)
(* SpecAgent : one execute_task run of the agent loop.                     *)
(***************************************************************************)
EXTENDS Integers, Sequences, FiniteSets, TLC

\* ------------------------------------------------------------------ bounds
\* Updates the chat server ever holds (messages sent to the bot).
MaxUpdates == 4
\* Questions a page lists (work-authorization, personal), each.
MaxQuestions == 1

\* Largest task.max_steps an agent task is given.
MaxSteps == 2
\* Most tool calls one LLM response carries.
MaxCalls == 2
\* upsert calls made on one credential store.
MaxUpserts == 3
\* parameters of one ToolDefinition.
MaxParams == 2
\* save_screenshot calls made on one store.
MaxShots == 3
\* get_config / get_profile calls made on one provider.
MaxReads == 2
\* add / update / list_all calls made on one application-record store.
MaxRepoCalls == 3
\* characters of the reply to a choice question.
MaxReplyLen == 3
MaxStored == 12
MaxFlows == 2

\* ----------------------------------------------------------------- helpers
\* Python's Optional: None is <<>>, a value v is <<v>>.
None == <<>>
Some(v) == <<v>>

Max(a, b) == IF a >= b THEN a ELSE b

\* What an inbound update is: a job URL, the /apply command or any other text
\* from the configured chat, or ("other") an /apply sent in another chat.
Kinds == {"url", "apply", "text", "other"}

\* str(exc) of an exception raised by a collaborator: may be the empty string.
ExcMsgs == {"", "err"}

VARIABLES
    \* --- chat server and dispatcher (TelegramBot)
    server,     \* updates sent so far; the update_id is the index
    offset,     \* TelegramBot._offset
    batch,      \* the rest of `updates` the loop of run() iterates over
    hpc,        \* where the dispatcher task is (run loop / _handle_apply)
    last_url,   \* TelegramBot._last_url (the update_id of the URL message)
    applying,   \* TelegramBot._applying
    hloc,       \* locals of _handle_apply: url, cfg.debug_mode, run_id, and
                \* whether an exception is propagating inside its try,
                \* whether `browser` is bound, and the close() calls made
    \* --- orchestrator (JobApplicationAgent.apply_to_job)
    opc,        \* where apply_to_job is
    run,        \* locals of the invocation
    records,    \* the application-record repository, in insertion order
    next_id,    \* the id generator
    \* --- observation
    inflight,   \* apply_to_job invocations started and not yet finished
    answers,    \* update_ids returned by _wait_for_user_text, with their run
    updates,    \* per record: how many update() calls have been applied
    \* --- agent loop (BrowserAgent.execute_task)
    apc,        \* where execute_task is
    task,       \* the AgentTask
    step_num,   \* the loop variable of `for step_num in range(task.max_steps)`
    response,   \* response.tool_calls of the current LLM response
    ci,         \* index in response of the call the inner loop is at
    steps,      \* the list `steps`
    messages,   \* the list `messages`
    result,     \* the AgentResult returned, if any
    \* --- observation of the agent loop
    llm_calls,  \* complete_with_tools calls made
    emitted,    \* every tool call the LLM has emitted, in order
    executed,   \* every tool call passed to BrowserToolsPort.execute, in order
    outcome,    \* how execute_task ended: done, max_steps, exception
    touched,    \* what execute has used so far: the page, the human channel
    \* --- credential store (SQLiteCredentialRepository)
    credentials,  \* the rows of the credentials table
    cred_calls,   \* observation: the upsert calls made, with their outcome
    \* --- tool schema conversion (OpenAIToolCallingClient._to_openai_tool)
    tpc,          \* where the conversion is: idle, call, returned
    tool_def,     \* the ToolDefinition td
    openai_tool,  \* the dict returned
    \* --- debug artifact store (FileSystemDebugArtifactStore)
    step_counter, \* FileSystemDebugArtifactStore._step_counter
    shot_calls,   \* observation: the save_screenshot calls made, in order
    \* --- configuration directory and FileSystemConfigProvider
    files,        \* config.json and profile.json as they are on disk
    cfg_reads,    \* observation: the get_config / get_profile calls made
    \* --- application-record store (SQLiteJobApplicationRepository)
    job_rows,     \* the table applied_jobs, in rowid order
    job_calls,    \* observation: the calls made, with what they returned
    \* --- ask_choice (TelegramBot / TelegramUserInteraction)
    choice_pc,    \* where ask_choice is
    choice_in,    \* its arguments and the reply _wait_for_user_text returns
    choice_out,   \* selected_options of the response
    choice_sel,   \* what answer_questions then selects in the browser
    \* --- /status (TelegramBot._handle_status)
    status_sent,  \* the message _handle_status sent, None before the call
    \* --- account flow (AccountFlowService.ensure_access)
    acc_pc,       \* where ensure_access is
    acc_in,       \* its arguments, what the page shows, the store at the call
    acc_password, \* the local `password`
    acc_ids,      \* the correlation ids IdGeneratorPort has handed out
    acc_runs      \* the ensure_access calls made so far

botVars == <<server, offset, batch, hpc, last_url, applying, hloc>>
orchVars == <<opc, run, records, next_id>>
obsVars == <<inflight, answers, updates>>
agentVars == <<apc, task, step_num, response, ci, steps, messages, result,
               llm_calls, emitted, executed, outcome, touched>>
credVars == <<credentials, cred_calls>>
toolVars == <<tpc, tool_def, openai_tool>>
shotVars == <<step_counter, shot_calls>>
cfgVars == <<files, cfg_reads>>
jobVars == <<job_rows, job_calls>>
choiceVars == <<choice_pc, choice_in, choice_out, choice_sel>>
statusVars == <<status_sent>>
accVars == <<acc_pc, acc_in, acc_password, acc_ids, acc_runs>>
infraVars == <<credVars, toolVars, shotVars, cfgVars, jobVars,
              choiceVars,
              statusVars,
              accVars>>

vars == <<botVars, orchVars, obsVars, agentVars, infraVars>>

\* ------------------------------------------------------ records (models)
Terminal == {"applied", "failed", "skipped"}

NoLocals == [url |-> 0, is_debug |-> FALSE, run_id |-> 0, exc |-> FALSE,
             browser |-> FALSE, closes |-> 0]

\* JobApplicationRecord(..., status=PENDING, debug_run_id=run_id if is_debug)
PendingRecord(id, url, is_debug, run_id) ==
    [id |-> id, job_url |-> url, status |-> "pending",
     applied_at |-> None, failure_reason |-> None,
     debug_run_id |-> IF is_debug THEN Some(run_id) ELSE None]

\* replace(record, status=APPLIED, applied_at=clock.now())
AppliedRecord_NoTimestamp(rec) == [rec EXCEPT !.status = "applied"]
AppliedRecord(rec) ==
    [rec EXCEPT !.status = "applied", !.applied_at = Some("now")]

\* replace(record, status=SKIPPED, failure_reason="Debug mode enabled: ...")
SkippedRecord_AsApplied(rec) == AppliedRecord(rec)
SkippedRecord(rec) ==
    [rec EXCEPT !.status = "skipped",
                !.failure_reason = Some("Debug mode enabled: final submit skipped")]

\* replace(record, status=FAILED, failure_reason=reason)
FailedRecord(rec, reason) ==
    [rec EXCEPT !.status = "failed", !.failure_reason = Some(reason)]

\* the locals of an apply_to_job invocation that has not created its record;
\* with them, what the invocation has done: whether it has reached the
\* is_debug test of line 116, its click_button("Apply") calls, the
\* end-of-run metadata documents it has handed to the debug store, and the
\* record it has returned
NoRun == [url |-> 0, is_debug |-> FALSE, run_id |-> 0,
          record |-> PendingRecord(0, 0, FALSE, 0),
          q |-> 0, reason |-> "", reply |-> "",
          final |-> FALSE, clicks |-> 0, metadata |-> <<>>,
          returned |-> None]

\* repository get: _row_to_record reads failure_reason as
\* `str(row[6]) if row[6] else None`
RepoGet(recs, id) ==
    LET row == CHOOSE r \in {recs[i] : i \in 1..Len(recs)} : r.id = id
    IN  [row EXCEPT !.failure_reason =
                       IF @ = None \/ @ = Some("") THEN None ELSE @]

\* repository add: a new row
RepoAdd(recs, rec) == Append(recs, rec)

\* repository update: the row with the record's id is replaced
RepoUpdate(recs, rec) ==
    [i \in 1..Len(recs) |-> IF recs[i].id = rec.id THEN rec ELSE recs[i]]

\* observation: one more update() call applied to the row with this id
CountUpdate(recs, ups, id) ==
    [i \in 1..Len(ups) |-> IF recs[i].id = id THEN ups[i] + 1 ELSE ups[i]]

\* ------------------------------------------------- dispatcher (TelegramBot)
\* cfg.telegram_chat_id, a str; Telegram sends chat.id as an integer
ChatId == [type |-> "str", digits |-> "123"]
Update(kind) ==
    IF kind = "other"
    THEN [chat_id |-> [type |-> "int", digits |-> "456"], text |-> "apply"]
    ELSE [chat_id |-> [type |-> "int", digits |-> "123"], text |-> kind]

\* str(x)
Str(x) == x.digits

\* _extract_text: None unless the update is a text from the configured chat
ExtractText_AnyChat(kind) == Some(Update(kind).text)
ExtractText(kind) ==
    IF Str(Update(kind).chat_id) # Str(ChatId) THEN None
    ELSE Some(Update(kind).text)

\* _get_updates: every update whose id is at least the offset, in id order
GetUpdates(off) ==
    LET lo == Max(off, 1)
    IN  [k \in 1..(Len(server) + 1 - lo) |-> lo + k - 1]

\* the offset after the first n updates of a polled list have been seen
RECURSIVE OffsetAfter(_, _, _)
OffsetAfter(off, ups, n) ==
    IF n = 0 THEN off
    ELSE Max(OffsetAfter(off, ups, n - 1), ups[n] + 1)

ListenerPcs == {"l_start", "l_poll", "l_iter"}
CrashedPcs == {"crashed_run", "crashed_update", "crashed_reject", "crashed_apply"}
HandlerPcs == {"h_setup", "h_start", "h_await", "h_close", "h_except"}

InitBot ==
    /\ server = <<>>
    /\ offset = 0
    /\ batch = <<>>
    /\ hpc = "l_start"
    /\ last_url = None
    /\ applying = FALSE
    /\ hloc = NoLocals
    /\ opc = "none"
    /\ run = NoRun
    /\ records = <<>>
    /\ next_id = 1
    /\ inflight = 0
    /\ answers = <<>>
    /\ updates = <<>>

\* The user (or anybody else) sends a message to the bot.
UserSends ==
    /\ hpc \notin CrashedPcs
    /\ Len(server) < MaxUpdates
    /\ \E k \in Kinds : server' = Append(server, k)
    /\ UNCHANGED <<offset, batch, hpc, last_url, applying, hloc>>
    /\ UNCHANGED <<orchVars, obsVars>>
    /\ UNCHANGED <<agentVars, infraVars>>

\* run(): read the config, greet; either may raise and end the task.
run_start ==
    /\ hpc = "l_start"
    /\ \E ok \in BOOLEAN : hpc' = IF ok THEN "l_poll" ELSE "crashed_run"
    /\ UNCHANGED <<server, offset, batch, last_url, applying, hloc>>
    /\ UNCHANGED <<orchVars, obsVars>>
    /\ UNCHANGED <<agentVars, infraVars>>

\* run(): updates = await self._get_updates()
run_poll ==
    /\ hpc = "l_poll"
    /\ \/ /\ GetUpdates(offset) # <<>>
          /\ batch' = GetUpdates(offset)
          /\ hpc' = "l_iter"
       \/ /\ hpc' = "crashed_run"
          /\ batch' = batch
    /\ UNCHANGED <<server, offset, last_url, applying, hloc>>
    /\ UNCHANGED <<orchVars, obsVars>>
    /\ UNCHANGED <<agentVars, infraVars>>

\* where the loop of run() is once a handler has returned
AfterHandler(rest) == IF rest = <<>> THEN "l_poll" ELSE "l_iter"

\* lines 115-120: a rejected /apply returns before line 122 sets the flag
ApplyingAfterReject_SetFirst == TRUE
ApplyingAfterReject == applying

\* _handle_update for everything but an accepted /apply
handle_update ==
    /\ hpc = "l_iter"
    /\ LET id == Head(batch)
           text == ExtractText(server[id])
       IN  /\ offset' = Max(offset, id + 1)
           /\ batch' = Tail(batch)
           /\ \/ /\ text = None
                 /\ hpc' = AfterHandler(Tail(batch))
                 /\ UNCHANGED <<last_url, applying>>
              \/ /\ text = Some("url")
                 /\ last_url' = Some(id)
                 /\ UNCHANGED applying
                 /\ \E ok \in BOOLEAN :
                        hpc' = IF ok THEN AfterHandler(Tail(batch))
                               ELSE "crashed_update"
              \/ /\ text = Some("text")
                 /\ UNCHANGED <<last_url, applying>>
                 /\ \E ok \in BOOLEAN :
                        hpc' = IF ok THEN AfterHandler(Tail(batch))
                               ELSE "crashed_update"
              \/ /\ text = Some("apply")
                 /\ (last_url = None \/ applying)
                 /\ UNCHANGED last_url
                 /\ applying' = ApplyingAfterReject
                 /\ \E ok \in BOOLEAN :
                        hpc' = IF ok THEN AfterHandler(Tail(batch))
                               ELSE "crashed_reject"
    /\ UNCHANGED <<server, hloc>>
    /\ UNCHANGED <<orchVars, obsVars>>
    /\ UNCHANGED <<agentVars, infraVars>>

\* ------------------------------------------------------------ _handle_apply
\* _handle_apply, lines 115-124: both guards pass; the flag is set and the
\* stored URL is taken
\* line 124: self._last_url = None, once the URL is in the local `url`
LastUrlAfterAccept_Kept == last_url
LastUrlAfterAccept == None

handle_apply_accept ==
    /\ hpc = "l_iter"
    /\ LET id == Head(batch)
       IN  /\ ExtractText(server[id]) = Some("apply")
           /\ last_url # None
           /\ ~applying
           /\ offset' = Max(offset, id + 1)
           /\ batch' = Tail(batch)
           /\ applying' = TRUE
           /\ hloc' = [NoLocals EXCEPT !.url = last_url[1]]
           /\ last_url' = LastUrlAfterAccept
           /\ hpc' = "h_setup"
    /\ UNCHANGED server
    /\ UNCHANGED <<orchVars, obsVars>>
    /\ UNCHANGED <<agentVars, infraVars>>

\* lines 127-165: config, profile and resume are read, the run id is drawn,
\* the browser is made (line 162) and launched (lines 163-165, before the
\* inner try); any of these may raise
handle_apply_setup ==
    /\ hpc = "h_setup"
    /\ \/ /\ hpc' = "h_except"
          /\ UNCHANGED <<hloc, next_id>>
       \/ /\ \E d \in BOOLEAN :
                hloc' = [hloc EXCEPT !.is_debug = d, !.run_id = next_id,
                                     !.browser = TRUE]
          /\ next_id' = next_id + 1
          /\ \E launched \in BOOLEAN :
                hpc' = IF launched THEN "h_start" ELSE "h_except"
    /\ UNCHANGED <<server, offset, batch, last_url, applying>>
    /\ UNCHANGED <<opc, run, records, obsVars>>
    /\ UNCHANGED <<agentVars, infraVars>>

\* line 169: `await agent.apply_to_job(...)`: the handler waits for the
\* invocation it starts
HpcAfterApplyCall_NoAwait == "h_close"
HpcAfterApplyCall == "h_await"

\* lines 167-169: the "Starting application" message, then the call
handle_apply_start ==
    /\ hpc = "h_start"
    /\ \/ /\ hloc' = [hloc EXCEPT !.exc = TRUE]
          /\ hpc' = "h_close"
          /\ UNCHANGED <<opc, run, inflight>>
       \/ /\ opc' = "o_add"
          /\ run' = [NoRun EXCEPT !.url = hloc.url, !.is_debug = hloc.is_debug,
                                  !.run_id = hloc.run_id]
          /\ inflight' = inflight + 1
          /\ hpc' = HpcAfterApplyCall
          /\ UNCHANGED hloc
    /\ UNCHANGED <<server, offset, batch, last_url, applying>>
    /\ UNCHANGED <<records, next_id, answers, updates>>
    /\ UNCHANGED <<agentVars, infraVars>>

\* lines 169-185: apply_to_job has returned a record (the result message is
\* sent, which may raise) or has raised
handle_apply_returned ==
    /\ hpc = "h_await"
    /\ \/ /\ opc = "o_ret"
          /\ \E ok \in BOOLEAN : hloc' = [hloc EXCEPT !.exc = ~ok]
       \/ /\ opc = "o_raised"
          /\ hloc' = [hloc EXCEPT !.exc = TRUE]
    /\ opc' = "none"
    /\ run' = NoRun
    /\ hpc' = "h_close"
    /\ UNCHANGED <<server, offset, batch, last_url, applying>>
    /\ UNCHANGED <<records, next_id, obsVars>>
    /\ UNCHANGED <<agentVars, infraVars>>

\* line 194: the finally clause resets the flag on every way out: the normal
\* one, after a handled exception, and with an exception propagating
ApplyingAtExit_NotInFinally(way) == way # "normal"
ApplyingAtExit(way) == FALSE

\* lines 186-189: the inner finally closes the browser (which may raise);
\* without an exception the handler then ends normally
handle_apply_close ==
    /\ hpc = "h_close"
    /\ \E closed \in BOOLEAN :
          IF hloc.exc \/ ~closed
          THEN /\ hpc' = "h_except"
               /\ hloc' = [hloc EXCEPT !.closes = hloc.closes + 1]
               /\ UNCHANGED applying
          ELSE /\ hpc' = AfterHandler(batch)
               /\ applying' = ApplyingAtExit("normal")
               /\ hloc' = NoLocals
    /\ UNCHANGED <<server, offset, batch, last_url>>
    /\ UNCHANGED <<orchVars, obsVars>>
    /\ UNCHANGED <<agentVars, infraVars>>

\* lines 190-194: the exception is logged and reported to the chat; when
\* that message cannot be sent either, the exception leaves the handler
handle_apply_except ==
    /\ hpc = "h_except"
    /\ \/ /\ hpc' = AfterHandler(batch)
          /\ applying' = ApplyingAtExit("handled")
       \/ /\ hpc' = "crashed_apply"
          /\ applying' = ApplyingAtExit("propagated")
    /\ hloc' = NoLocals
    /\ UNCHANGED <<server, offset, batch, last_url>>
    /\ UNCHANGED <<orchVars, obsVars>>
    /\ UNCHANGED <<agentVars, infraVars>>

\* ------------------------------------------------ apply_to_job (orchestrator)
AskPcs == {"ask_reset", "ask_otp", "ask_wa", "ask_pq", "ask_captcha"}

\* an exception raised inside the try block of apply_to_job reaches its
\* `except Exception as exc` clause with str(exc) = m
RaiseFrom(r, m) ==
    /\ opc' = "o_except"
    /\ run' = [r EXCEPT !.reason = m]

Raise(m) == RaiseFrom(run, m)

Goto(p) ==
    /\ opc' = p
    /\ UNCHANGED run

\* a step of the try block that touches only the browser: it raises or goes on
BrowserStep(from, to) ==
    /\ opc = from
    /\ \/ \E m \in ExcMsgs : Raise(m)
       \/ Goto(to)
    /\ UNCHANGED <<botVars, records, next_id, obsVars>>
    /\ UNCHANGED <<agentVars, infraVars>>

\* lines 67-77, before the try block: the pending record is built and added,
\* and a debug run's directory is made; an exception here leaves apply_to_job
apply_to_job_begin ==
    /\ opc = "o_add"
    /\ next_id' = next_id + 1
    /\ LET rec == PendingRecord(next_id, run.url, run.is_debug, run.run_id)
       IN  \/ /\ opc' = "o_raised"
              /\ inflight' = inflight - 1
              /\ UNCHANGED <<run, records, updates>>
           \/ /\ run.is_debug
              /\ records' = RepoAdd(records, rec)
              /\ updates' = Append(updates, 0)
              /\ run' = [run EXCEPT !.record = rec]
              /\ opc' = "o_raised"
              /\ inflight' = inflight - 1
           \/ /\ records' = RepoAdd(records, rec)
              /\ updates' = Append(updates, 0)
              /\ run' = [run EXCEPT !.record = rec]
              /\ opc' = "o_load"
              /\ UNCHANGED inflight
    /\ UNCHANGED <<botVars, answers>>
    /\ UNCHANGED <<agentVars, infraVars>>

\* lines 80-82: goto, wait_for_load, the page_loaded screenshot
apply_to_job_load == BrowserStep("o_load", "o_oauth")

\* Inside the try block a terminal record is written with job_repo.update and
\* the user is told with ui.send_info; either may raise into the except
\* clause (lines 122-126, 134-138, and _finalize_failure called at 85, 109)
UpdateAndInformFrom(r, rec) ==
    \/ /\ \E m \in ExcMsgs : RaiseFrom(r, m)
       /\ UNCHANGED <<records, updates, inflight>>
    \/ /\ records' = RepoUpdate(records, rec)
       /\ updates' = CountUpdate(records, updates, rec.id)
       /\ \/ /\ \E m \in ExcMsgs : RaiseFrom(r, m)
             /\ UNCHANGED inflight
          \/ /\ opc' = "o_ret"
             /\ inflight' = inflight - 1
             /\ run' = [r EXCEPT !.returned = Some(rec)]

UpdateAndInform(rec) == UpdateAndInformFrom(run, rec)

finalize_failure_in_try(reason) ==
    UpdateAndInform(FailedRecord(run.record, reason))

\* lines 84-89: an OAuth-only login is a failure
apply_to_job_oauth ==
    /\ opc = "o_oauth"
    /\ \/ /\ \E m \in ExcMsgs : Raise(m)
          /\ UNCHANGED <<records, updates, inflight>>
       \/ /\ Goto("o_access")
          /\ UNCHANGED <<records, updates, inflight>>
       \/ finalize_failure_in_try("OAuth-only login cannot be automated")
    /\ UNCHANGED <<botVars, next_id, answers>>
    /\ UNCHANGED <<agentVars, infraVars>>

\* ui.ask_*: the question is sent (which may raise), then the answer awaited
Ask(askpc) ==
    \/ \E m \in ExcMsgs : Raise(m)
    \/ Goto(askpc)

\* ensure_access, lines 37-50: no account is needed, or one is created
ensure_access ==
    /\ opc = "o_access"
    /\ \/ /\ \E m \in ExcMsgs : Raise(m)
          /\ UNCHANGED next_id
       \/ /\ Goto("o_form")
          /\ UNCHANGED next_id
       \/ /\ next_id' = next_id + 1
          /\ \/ \E m \in ExcMsgs : Raise(m)
             \/ Goto("o_exists")
    /\ UNCHANGED <<botVars, records, obsVars>>
    /\ UNCHANGED <<agentVars, infraVars>>

\* ensure_access, lines 52-61: the account exists already: the reset code is asked
ensure_access_exists ==
    /\ opc = "o_exists"
    /\ \/ \E m \in ExcMsgs : Raise(m)
       \/ Goto("o_otp")
       \/ Ask("ask_reset")
    /\ UNCHANGED <<botVars, records, next_id, obsVars>>
    /\ UNCHANGED <<agentVars, infraVars>>

\* ensure_access, line 62: the reset code is filled in
ensure_access_reset == BrowserStep("got_reset", "o_otp")

\* ensure_access, lines 64-69: a one-time code is required: it is asked
ensure_access_otp ==
    /\ opc = "o_otp"
    /\ \/ \E m \in ExcMsgs : Raise(m)
       \/ Goto("o_upsert")
       \/ Ask("ask_otp")
    /\ UNCHANGED <<botVars, records, next_id, obsVars>>
    /\ UNCHANGED <<agentVars, infraVars>>

\* ensure_access, line 70: the one-time code is filled in
ensure_access_otp_fill == BrowserStep("got_otp", "o_upsert")

\* ensure_access, lines 72-84: the credential is stored
ensure_access_upsert ==
    /\ opc = "o_upsert"
    /\ next_id' = next_id + 1
    /\ \/ \E m \in ExcMsgs : Raise(m)
       \/ Goto("o_form")
    /\ UNCHANGED <<botVars, records, obsVars>>
    /\ UNCHANGED <<agentVars, infraVars>>

\* the next question of a list of n is asked, or the list is done
AskNext(n, askpc, donepc) ==
    IF n = 0
    THEN Goto(donepc)
    ELSE \/ \E m \in ExcMsgs : Raise(m)
         \/ /\ opc' = askpc
            /\ run' = [run EXCEPT !.q = n]

\* lines 100-103: the account_flow screenshot, the common fields, then the
\* page's work-authorization questions (answer_questions, lines 30-36)
apply_to_job_form ==
    /\ opc = "o_form"
    /\ \/ \E m \in ExcMsgs : Raise(m)
       \/ \E n \in 0..MaxQuestions : AskNext(n, "ask_wa", "o_pq")
    /\ UNCHANGED <<botVars, records, next_id, obsVars>>
    /\ UNCHANGED <<agentVars, infraVars>>

\* answer_questions, lines 42-44: the chosen option is selected, next question
answer_questions_select ==
    /\ opc = "got_wa"
    /\ \/ \E m \in ExcMsgs : Raise(m)
       \/ AskNext(run.q - 1, "ask_wa", "o_pq")
    /\ UNCHANGED <<botVars, records, next_id, obsVars>>
    /\ UNCHANGED <<agentVars, infraVars>>

\* _fill_personal_questions, lines 186-192: the page's personal questions
fill_personal_questions ==
    /\ opc = "o_pq"
    /\ \/ \E m \in ExcMsgs : Raise(m)
       \/ \E n \in 0..MaxQuestions : AskNext(n, "ask_pq", "o_captcha")
    /\ UNCHANGED <<botVars, records, next_id, obsVars>>
    /\ UNCHANGED <<agentVars, infraVars>>

\* _fill_personal_questions, line 193: the answer is filled in, next question
fill_personal_questions_fill ==
    /\ opc = "got_pq"
    /\ \/ \E m \in ExcMsgs : Raise(m)
       \/ AskNext(run.q - 1, "ask_pq", "o_captcha")
    /\ UNCHANGED <<botVars, records, next_id, obsVars>>
    /\ UNCHANGED <<agentVars, infraVars>>

\* lines 105-113 and handle_if_present: the form_filled screenshot; no captcha,
\* an image captcha (a failure), or a text captcha sent to the user
apply_to_job_captcha ==
    /\ opc = "o_captcha"
    /\ \/ /\ \E m \in ExcMsgs : Raise(m)
          /\ UNCHANGED <<records, updates, inflight>>
       \/ /\ Goto("o_submit")
          /\ UNCHANGED <<records, updates, inflight>>
       \/ finalize_failure_in_try("Image-based captcha prevents automation")
       \/ /\ Ask("ask_captcha")
          /\ UNCHANGED <<records, updates, inflight>>
    /\ UNCHANGED <<botVars, next_id, answers>>
    /\ UNCHANGED <<agentVars, infraVars>>

\* handle_if_present, line 38: the captcha text is filled in
handle_if_present_fill == BrowserStep("got_captcha", "o_submit")

\* line 116: `if run_context.is_debug:` decides whether line 128 is reached
ClicksApply(is_debug) == ~is_debug

\* lines 114-138: the captcha_done screenshot; a debug run is recorded as
\* skipped; otherwise "Apply" is clicked (which may raise) and the run
\* recorded as applied
apply_to_job_submit ==
    /\ opc = "o_submit"
    /\ \/ /\ \E m \in ExcMsgs : Raise(m)
          /\ UNCHANGED <<records, updates, inflight>>
       \/ /\ ~ClicksApply(run.is_debug)
          /\ UpdateAndInformFrom([run EXCEPT !.final = TRUE],
                                 SkippedRecord(run.record))
       \/ /\ ClicksApply(run.is_debug)
          /\ LET clicked == [run EXCEPT !.final = TRUE, !.clicks = @ + 1]
             IN  \/ /\ \E m \in ExcMsgs : RaiseFrom(clicked, m)
                    /\ UNCHANGED <<records, updates, inflight>>
                 \/ UpdateAndInformFrom(clicked, AppliedRecord(run.record))
    /\ UNCHANGED <<botVars, next_id, answers>>
    /\ UNCHANGED <<agentVars, infraVars>>

\* lines 139-159: the except clause calls _finalize_failure(record, str(exc));
\* an exception of its update or its message leaves apply_to_job
apply_to_job_except ==
    /\ opc = "o_except"
    /\ LET failed == FailedRecord(run.record, run.reason)
       IN  \/ /\ opc' = "o_raised"
              /\ UNCHANGED <<records, updates, run>>
           \/ /\ records' = RepoUpdate(records, failed)
              /\ updates' = CountUpdate(records, updates, failed.id)
              /\ \/ /\ opc' = "o_raised"
                    /\ UNCHANGED run
                 \/ /\ opc' = "o_ret"
                    /\ run' = [run EXCEPT !.returned = Some(failed)]
    /\ inflight' = inflight - 1
    /\ UNCHANGED <<botVars, next_id, answers>>
    /\ UNCHANGED <<agentVars, infraVars>>

\* ------------------------------------------------------ _wait_for_user_text
\* index in a polled list of the first update that carries a text, 0 if none
FirstText(ups) ==
    LET hits == {j \in 1..Len(ups) : ExtractText(server[ups[j]]) # None}
    IN  IF hits = {} THEN 0
        ELSE CHOOSE j \in hits : \A k \in hits : j <= k

\* lines 272-277: the offset when the j-th update of the list is returned
OffsetAtReturn_Before(off, ups, j) == OffsetAfter(off, ups, j - 1)
OffsetAtReturn(off, ups, j) == OffsetAfter(off, ups, j)

GotPc(askpc) ==
    CASE askpc = "ask_reset" -> "got_reset"
      [] askpc = "ask_otp" -> "got_otp"
      [] askpc = "ask_wa" -> "got_wa"
      [] askpc = "ask_pq" -> "got_pq"
      [] askpc = "ask_captcha" -> "got_captcha"

\* _wait_for_user_text, lines 269-278, for a question that has been sent: one
\* poll; the first text of the list is the answer, the rest is left unseen
wait_for_user_text ==
    /\ opc \in AskPcs
    /\ \/ /\ \E m \in ExcMsgs : Raise(m)
          /\ UNCHANGED <<offset, answers>>
       \/ /\ GetUpdates(offset) # <<>>
          /\ LET ups == GetUpdates(offset)
                 j == FirstText(ups)
             IN  IF j = 0
                 THEN /\ offset' = OffsetAfter(offset, ups, Len(ups))
                      /\ UNCHANGED <<opc, run, answers>>
                 ELSE /\ offset' = OffsetAtReturn(offset, ups, j)
                      /\ answers' = Append(answers,
                                       [rid |-> run.record.id, id |-> ups[j]])
                      /\ opc' = GotPc(opc)
                      /\ run' = [run EXCEPT !.reply = server[ups[j]]]
    /\ UNCHANGED <<server, batch, hpc, last_url, applying, hloc>>
    /\ UNCHANGED <<records, next_id, inflight, updates>>
    /\ UNCHANGED <<agentVars, infraVars>>

\* ------------------------------------------- execute_task (the agent loop)
\* A Python dict is the set of its <<key, value>> pairs, values Optional.
DictHas(d, k) == \E p \in d : p[1] = k
\* dict.get(k, default)
DictGet(d, k, default) ==
    IF DictHas(d, k) THEN (CHOOSE p \in d : p[1] = k)[2] ELSE default

\* ToolCall(name, arguments)
ToolCall(name, arguments) == [name |-> name, arguments |-> arguments]

\* TOOL_DEFINITIONS, playwright_tools.py lines 17-95: the declared tools
DeclaredTools ==
    {"page_snapshot", "screenshot", "goto", "click", "fill", "select_option",
     "upload_file", "scroll", "get_current_url", "wait", "ask_user",
     "report_status", "done"}

\* what a model may call besides done: a declared tool, on an element the
\* page has, and a tool that is not declared
BrowserCalls ==
    {ToolCall("click", {<<"target", Some("Next")>>}),
     ToolCall("nonexistent", {})}

\* the arguments a model may pass to done: no status, a declared one, null,
\* the empty string, a string outside the enum
DoneArgs ==
    {{}, {<<"status", Some("failed")>>, <<"reason", Some("why")>>},
     {<<"status", None>>}, {<<"status", Some("")>>},
     {<<"status", Some("partial")>>}}

DoneCalls == {ToolCall("done", a) : a \in DoneArgs}

\* lists of at most n calls
RECURSIVE CallLists(_)
CallLists(n) ==
    IF n = 0 THEN {<<>>}
    ELSE LET shorter == CallLists(n - 1)
         IN  shorter \cup
             {Append(l, c) : l \in {x \in shorter : Len(x) = n - 1},
                             c \in BrowserCalls \cup DoneCalls}

\* LLMToolResponse(tool_calls, text): what complete_with_tools may return
Responses ==
    {[tool_calls |-> l, text |-> t] :
        l \in CallLists(MaxCalls), t \in {None, Some("Thinking...")}}

\* PlaywrightBrowserTools.execute, lines 120-124:
\* getattr(self, f"_tool_{name}", None) finds a handler for the declared tools
HasHandler(name) == name \in DeclaredTools

\* execute raises only inside a handler (the page or the channel fails)
MayRaise_Always(tc) == TRUE
MayRaise(tc) == HasHandler(tc.name)

\* the string execute returns for a call: f"Unknown tool: {name}" without a
\* handler, else what the handler returns (_tool_click: f"Clicked: {target}")
ExecuteResult(tc) ==
    IF HasHandler(tc.name)
    THEN <<"Clicked: ", DictGet(tc.arguments, "target", None)>>
    ELSE <<"Unknown tool: ", tc.name>>

\* what execute uses while it runs the call: a handler works on the page
\* (_tool_click) or on the human channel; without a handler nothing is used
Touches(tc) == IF HasHandler(tc.name) THEN <<"page">> ELSE <<>>

\* AgentStep(step_number=step_num, tool_name, tool_args, tool_result)
AgentStep(n, tc, result_text) ==
    [step_number |-> n, tool_name |-> tc.name,
     tool_args |-> tc.arguments, tool_result |-> result_text]

\* f"call_{step_num}_{tc.name}"
CallId(n, name) == <<"call", n, name>>

\* the two history entries appended after a call has been executed
ToolMessages_ResultFirst(n, tc, result_text) ==
    << [role |-> "tool", tool_call_id |-> CallId(n, tc.name),
        content |-> Some(result_text)],
       [role |-> "assistant", content |-> None,
        tool_calls |-> <<[id |-> CallId(n, tc.name), name |-> tc.name,
                          arguments |-> tc.arguments]>>] >>
ToolMessages(n, tc, result_text) ==
    << [role |-> "assistant", content |-> None,
        tool_calls |-> <<[id |-> CallId(n, tc.name), name |-> tc.name,
                          arguments |-> tc.arguments]>>],
       [role |-> "tool", tool_call_id |-> CallId(n, tc.name),
        content |-> Some(result_text)] >>

\* AgentResult for a done call (lines 61-66)
DoneResult(tc, sofar) ==
    [status |-> DictGet(tc.arguments, "status", Some("success")),
     reason |-> DictGet(tc.arguments, "reason", None),
     data |-> tc.arguments, steps_taken |-> sofar]

\* f"Agent exceeded maximum steps ({task.max_steps})"
MaxStepsReason(n) == <<"Agent exceeded maximum steps (", n, ")">>

\* AgentResult once the loop is exhausted (lines 107-111)
MaxStepsResult_LastStepNum(t, made, sofar) ==
    [status |-> Some("failed"), reason |-> Some(MaxStepsReason(made - 1)),
     data |-> {}, steps_taken |-> sofar]
MaxStepsResult(t, made, sofar) ==
    [status |-> Some("failed"), reason |-> Some(MaxStepsReason(t.max_steps)),
     data |-> {}, steps_taken |-> sofar]

\* range(task.max_steps) has an iteration left
LoopContinues_OneMore(n, t) == n <= t.max_steps
LoopContinues(n, t) == n < t.max_steps

\* the inner loop stops at a done call
IsDone_Never(tc) == FALSE
IsDone(tc) == tc.name = "done"

\* lines 49-68: the awaits stand in no try block, so an exception raised by
\* complete_with_tools or by execute leaves execute_task
AfterRaise_Caught == "loop"
AfterRaise == "raised"

NoResult == [status |-> None, reason |-> None, data |-> {}, steps_taken |-> <<>>]

AgentIdle ==
    /\ apc = "idle"
    /\ task = [max_steps |-> 0]
    /\ step_num = 0
    /\ response = <<>>
    /\ ci = 0
    /\ steps = <<>>
    /\ messages = <<>>
    /\ result = NoResult
    /\ llm_calls = 0
    /\ emitted = <<>>
    /\ executed = <<>>
    /\ outcome = "none"
    /\ touched = <<>>

\* lines 41-46: the history starts with the system prompt and the task
AgentStart ==
    /\ apc = "loop"
    /\ task \in [max_steps : 0..MaxSteps]
    /\ step_num = 0
    /\ response = <<>>
    /\ ci = 0
    /\ steps = <<>>
    /\ messages = <<[role |-> "system", content |-> Some("SYSTEM_PROMPT")],
                    [role |-> "user", content |-> Some("objective")]>>
    /\ result = NoResult
    /\ llm_calls = 0
    /\ emitted = <<>>
    /\ executed = <<>>
    /\ outcome = "none"
    /\ touched = <<>>

\* lines 48-57: one iteration begins: the LLM is called; it raises, answers
\* without tool calls (the text, if any, is kept), or answers with tool calls
execute_task_llm ==
    /\ apc = "loop"
    /\ LoopContinues(step_num, task)
    /\ llm_calls' = llm_calls + 1
    /\ \/ /\ apc' = AfterRaise
          /\ outcome' = "exception"
          /\ UNCHANGED <<step_num, response, ci, messages, emitted>>
       \/ \E r \in Responses :
             /\ emitted' = emitted \o r.tool_calls
             /\ IF r.tool_calls = <<>>
                THEN /\ messages' =
                            IF r.text # None
                            THEN Append(messages,
                                    [role |-> "assistant", content |-> r.text])
                            ELSE messages
                     /\ step_num' = step_num + 1
                     /\ UNCHANGED <<apc, response, ci, outcome>>
                ELSE /\ response' = r.tool_calls
                     /\ ci' = 1
                     /\ apc' = "calls"
                     /\ UNCHANGED <<step_num, messages, outcome>>
    /\ UNCHANGED <<task, steps, result, executed, touched>>
    /\ UNCHANGED <<botVars, orchVars, obsVars, infraVars>>

\* lines 59-66: the call the inner loop is at is done: the result is returned
execute_task_done ==
    /\ apc = "calls"
    /\ IsDone(response[ci])
    /\ result' = DoneResult(response[ci], steps)
    /\ apc' = "returned"
    /\ outcome' = "done"
    /\ UNCHANGED <<task, step_num, response, ci, steps, messages,
                   llm_calls, emitted, executed, touched>>
    /\ UNCHANGED <<botVars, orchVars, obsVars, infraVars>>

\* lines 68-101: the call is executed (which may raise), the step recorded,
\* the history extended; after the last call the next iteration begins
execute_task_tool ==
    /\ apc = "calls"
    /\ ~IsDone(response[ci])
    /\ LET tc == response[ci]
           result_text == ExecuteResult(tc)
       IN  /\ executed' = Append(executed, tc)
           /\ touched' = touched \o Touches(tc)
           /\ \/ /\ MayRaise(tc)
                 /\ apc' = AfterRaise
                 /\ outcome' = "exception"
                 /\ UNCHANGED <<step_num, ci, steps, messages>>
              \/ /\ steps' = Append(steps,
                                AgentStep(step_num, tc, result_text))
                 /\ messages' = messages \o ToolMessages(step_num, tc, result_text)
                 /\ IF ci = Len(response)
                    THEN /\ step_num' = step_num + 1
                         /\ apc' = "loop"
                         /\ ci' = 0
                    ELSE /\ ci' = ci + 1
                         /\ UNCHANGED <<step_num, apc>>
                 /\ UNCHANGED outcome
    /\ UNCHANGED <<task, response, result, llm_calls, emitted>>
    /\ UNCHANGED <<botVars, orchVars, obsVars, infraVars>>

\* lines 103-111: the loop is exhausted: the failure result is returned
execute_task_exceeded ==
    /\ apc = "loop"
    /\ ~LoopContinues(step_num, task)
    /\ result' = MaxStepsResult(task, step_num, steps)
    /\ apc' = "returned"
    /\ outcome' = "max_steps"
    /\ UNCHANGED <<task, step_num, response, ci, steps, messages,
                   llm_calls, emitted, executed, touched>>
    /\ UNCHANGED <<botVars, orchVars, obsVars, infraVars>>

\* ------------------------------------- SQLiteCredentialRepository.upsert
\* the AccountCredential values upsert is called with
CredIds == {"cred-1", "cred-2"}
Portals == {"greenhouse", "lever"}
Passwords == {"secret", "new-secret"}
Times == {1, 2}
Credentials ==
    [id : CredIds, portal : Portals, tenant : {"company-a"},
     email : {"user@example.com"}, password : Passwords,
     created_at : Times, updated_at : Times]

\* UNIQUE (portal, tenant, email)
KeyOf(c) == <<c.portal, c.tenant, c.email>>

\* DO UPDATE SET id=excluded.id, password=excluded.password,
\*               updated_at=excluded.updated_at
ConflictUpdate_AlsoCreatedAt(row, c) == c
ConflictUpdate(row, c) ==
    [row EXCEPT !.id = c.id, !.password = c.password,
                !.updated_at = c.updated_at]

\* the statement fails on the PRIMARY KEY: another row has the new id
IdTaken(rows, c) ==
    \E r \in rows : r.id = c.id /\ KeyOf(r) # KeyOf(c)

\* the table after INSERT ... ON CONFLICT(portal, tenant, email) DO UPDATE
UpsertRows(rows, c) ==
    IF \E r \in rows : KeyOf(r) = KeyOf(c)
    THEN {IF KeyOf(r) = KeyOf(c) THEN ConflictUpdate(r, c) ELSE r : r \in rows}
    ELSE rows \cup {c}

CredIdle ==
    /\ credentials = {}
    /\ cred_calls = <<>>

\* upsert, lines 44-61: sqlite3.IntegrityError when the id is taken by a row
\* with another key (the table is then unchanged), else the row is written
upsert ==
    /\ Len(cred_calls) < MaxUpserts
    /\ \E c \in Credentials :
          IF IdTaken(credentials, c)
          THEN /\ cred_calls' = Append(cred_calls, [cred |-> c, ok |-> FALSE])
               /\ UNCHANGED credentials
          ELSE /\ cred_calls' = Append(cred_calls, [cred |-> c, ok |-> TRUE])
               /\ credentials' = UpsertRows(credentials, c)
    /\ UNCHANGED <<botVars, orchVars, obsVars, agentVars, toolVars, shotVars, cfgVars, jobVars,
                 choiceVars,
                 statusVars,
                 accVars>>

\* ------------------------------------ OpenAIToolCallingClient._to_openai_tool
\* a parameter's JSON schema is a dict: the function from its keys
ParamNames == {"field", "value", "seconds"}
SchemaKeys == {"type", "description", "default"}
SchemaValues(k) ==
    CASE k = "type" -> {"string"}
      [] k = "description" -> {"text"}
      [] k = "default" -> {0, 2}

\* every dict over a set of keys, each key with one of its values
RECURSIVE DictsOver(_)
DictsOver(keys) ==
    IF keys = {} THEN {<<>>}
    ELSE LET k == CHOOSE x \in keys : TRUE
         IN  {[y \in DOMAIN d \cup {k} |-> IF y = k THEN v ELSE d[y]] :
                 d \in DictsOver(keys \ {k}), v \in SchemaValues(k)}

Schemas == UNION {DictsOver(ks) : ks \in SUBSET SchemaKeys}

\* td.parameters.items(): (name, schema) pairs in insertion order, the names
\* distinct; every such list of at most n pairs
RECURSIVE ParamLists(_)
ParamLists(n) ==
    IF n = 0 THEN {<<>>}
    ELSE LET shorter == ParamLists(n - 1)
         IN  shorter \cup
             {Append(l, <<nm, sc>>) :
                 l \in {x \in shorter : Len(x) = n - 1},
                 nm \in ParamNames, sc \in Schemas}

DistinctNames(l) ==
    \A i, j \in 1..Len(l) : i # j => l[i][1] # l[j][1]

ToolDefinitions ==
    {[name |-> "fill", parameters |-> l] :
        l \in {x \in ParamLists(MaxParams) : DistinctNames(x)}}

\* line 92: {k: v for k, v in schema.items() if k != "default"}
WithoutDefault(schema) ==
    [k \in DOMAIN schema \ {"default"} |-> schema[k]]

\* line 93: "default" not in schema
IsRequired_FalsyDefault(schema) ==
    IF "default" \in DOMAIN schema THEN schema["default"] = 0 ELSE TRUE
IsRequired(schema) == "default" \notin DOMAIN schema

\* lines 89-94: the loop over the first n items
RECURSIVE ConvertParams(_, _)
ConvertParams(params, n) ==
    IF n = 0 THEN [properties |-> <<>>, required |-> <<>>]
    ELSE LET sofar == ConvertParams(params, n - 1)
             name == params[n][1]
             schema == params[n][2]
         IN  [properties |->
                 [x \in DOMAIN sofar.properties \cup {name} |->
                     IF x = name THEN WithoutDefault(schema)
                     ELSE sofar.properties[x]],
              required |->
                 IF IsRequired(schema) THEN Append(sofar.required, name)
                 ELSE sofar.required]

\* lines 96-107: the dict returned, function.parameters flattened
ToOpenAITool(td) ==
    LET c == ConvertParams(td.parameters, Len(td.parameters))
    IN  [name |-> td.name, properties |-> c.properties, required |-> c.required]

ToolIdle ==
    /\ tpc = "idle"
    /\ tool_def = [name |-> "none", parameters |-> <<>>]
    /\ openai_tool = [name |-> "none", properties |-> <<>>, required |-> <<>>]

ToolStart ==
    /\ tpc = "call"
    /\ tool_def \in ToolDefinitions
    /\ openai_tool = [name |-> "none", properties |-> <<>>, required |-> <<>>]

to_openai_tool ==
    /\ tpc = "call"
    /\ openai_tool' = ToOpenAITool(tool_def)
    /\ tpc' = "returned"
    /\ UNCHANGED tool_def
    /\ UNCHANGED <<botVars, orchVars, obsVars, agentVars, credVars, shotVars, cfgVars, jobVars,
                 choiceVars,
                 statusVars,
                 accVars>>

\* ------------------------------ FileSystemDebugArtifactStore.save_screenshot
RunIds == {"run-1", "run-2"}
RunContexts == [run_id : RunIds, log_directory : {None, Some("shared")}]
StepNames == {"page_loaded", "?"}

\* _run_dir, lines 48-51
RunDir(ctx) ==
    IF ctx.log_directory # None THEN <<"dir", ctx.log_directory[1]>>
    ELSE <<"logs/run_", ctx.run_id>>

\* _safe, lines 53-56: a name without any allowed character becomes "step"
Safe(step_name) == IF step_name = "?" THEN "step" ELSE step_name

\* line 30: self._step_counter.get(run_context.run_id, 0) + 1
NextCount_Shared(counter, run_id) ==
    IF DOMAIN counter = {} THEN 1
    ELSE 1 + (CHOOSE n \in {counter[r] : r \in DOMAIN counter} :
                 \A r \in DOMAIN counter : counter[r] <= n)
NextCount(counter, run_id) ==
    IF run_id \in DOMAIN counter THEN counter[run_id] + 1 ELSE 1

\* line 31: self._step_counter[run_context.run_id] = count
SetCount(counter, run_id, count) ==
    [r \in DOMAIN counter \cup {run_id} |->
        IF r = run_id THEN count ELSE counter[r]]

ShotIdle ==
    /\ step_counter = <<>>
    /\ shot_calls = <<>>

\* save_screenshot, lines 22-35: mkdir may raise before the counter is
\* touched, write_bytes after; otherwise the path is returned
save_screenshot ==
    /\ Len(shot_calls) < MaxShots
    /\ \E ctx \in RunContexts, step_name \in StepNames :
          LET count == NextCount(step_counter, ctx.run_id)
              path == [dir |-> RunDir(ctx), count |-> count,
                       name |-> Safe(step_name)]
          IN  \/ /\ shot_calls' = Append(shot_calls,
                        [run_id |-> ctx.run_id, count |-> 0, path |-> None])
                 /\ UNCHANGED step_counter
              \/ /\ step_counter' = SetCount(step_counter, ctx.run_id, count)
                 /\ \E written \in BOOLEAN :
                       shot_calls' = Append(shot_calls,
                          [run_id |-> ctx.run_id, count |-> count,
                           path |-> IF written THEN Some(path) ELSE None])
    /\ UNCHANGED <<botVars, orchVars, obsVars, agentVars, credVars, toolVars, cfgVars, jobVars,
                 choiceVars,
                 statusVars,
                 accVars>>

\* ------------------------------------------------ FileSystemConfigProvider
\* a JSON object is the function from its keys; a JSON value is its text
Obj(pairs) == [k \in {p[1] : p \in pairs} |-> (CHOOSE p \in pairs : p[1] = k)[2]]

\* what config.json may hold: the required keys (BOT_TOKEN possibly absent)
\* and an optional debug_mode
ConfigObjects ==
    {Obj(tok \cup dbg \cup {<<"TELEGRAM_CHAT_ID", "42">>, <<"OPENAI_KEY", "sk">>,
                            <<"OPENAI_BASE_URL", "https://api">>}) :
        tok \in {{}, {<<"BOT_TOKEN", "123:abc">>}},
        dbg \in {{}} \cup {{<<"debug_mode", v>>} : v \in {"true", "false", "\"no\""}}}

\* what profile.json may hold
ProfileObjects ==
    {Obj(nm \cup {<<"email", "jane@example.com">>}) :
        nm \in {{}} \cup {{<<"name", v>>} : v \in {"Jane", "Jane Doe"}}}

\* a file on disk: absent or unparseable, or a JSON object
NoFile == [readable |-> FALSE, data |-> <<>>]
FileStates(objects) == {NoFile} \cup {[readable |-> TRUE, data |-> o] : o \in objects}

\* _read_json, lines 205-207: the file as it is on disk now
ReadJson_Cached(filename) ==
    IF \E i \in 1..Len(cfg_reads) : cfg_reads[i].filename = filename
    THEN cfg_reads[CHOOSE i \in 1..Len(cfg_reads) :
                     cfg_reads[i].filename = filename].file
    ELSE files[filename]
ReadJson(filename) == files[filename]

\* bool(v) for a JSON value: false, and no value at all, are falsy
Bool(v) == v \notin {"false", "absent"}

\* data.get(k) / data.get(k, default)
Get(data, k, default) == IF k \in DOMAIN data THEN data[k] ELSE default

\* lines 172-178: AppConfig(...); KeyError when a required key is absent
ConfigRaises(file) == ~file.readable \/ "BOT_TOKEN" \notin DOMAIN file.data
AppConfig(data) ==
    [bot_token |-> data["BOT_TOKEN"],
     telegram_chat_id |-> data["TELEGRAM_CHAT_ID"],
     openai_key |-> data["OPENAI_KEY"],
     openai_base_url |-> data["OPENAI_BASE_URL"],
     debug_mode |-> Bool(Get(data, "debug_mode", "absent"))]

\* lines 182-187: UserProfile(...); KeyError without a name
ProfileRaises(file) == ~file.readable \/ "name" \notin DOMAIN file.data
UserProfile(data) ==
    [full_name |-> data["name"], email |-> data["email"],
     phone |-> Get(data, "phone", "None"),
     address |-> Get(data, "address", "None")]

CfgIdle ==
    /\ files = [f \in {"config.json", "profile.json"} |-> NoFile]
    /\ cfg_reads = <<>>

CfgStart ==
    /\ files \in [{"config.json", "profile.json"} ->
                     FileStates(ConfigObjects) \cup FileStates(ProfileObjects)]
    /\ files["config.json"] \in FileStates(ConfigObjects)
    /\ files["profile.json"] \in FileStates(ProfileObjects)
    /\ cfg_reads = <<>>

\* somebody edits, replaces or removes config.json
write_config ==
    /\ \E f \in FileStates(ConfigObjects) :
          files' = [files EXCEPT !["config.json"] = f]
    /\ UNCHANGED cfg_reads
    /\ UNCHANGED <<botVars, orchVars, obsVars, agentVars, credVars, toolVars, shotVars, jobVars,
                 choiceVars,
                 statusVars,
                 accVars>>

\* somebody edits, replaces or removes profile.json
write_profile ==
    /\ \E f \in FileStates(ProfileObjects) :
          files' = [files EXCEPT !["profile.json"] = f]
    /\ UNCHANGED cfg_reads
    /\ UNCHANGED <<botVars, orchVars, obsVars, agentVars, credVars, toolVars, shotVars, jobVars,
                 choiceVars,
                 statusVars,
                 accVars>>

\* get_config, lines 170-178
get_config ==
    /\ Len(cfg_reads) < MaxReads
    /\ LET file == ReadJson("config.json")
       IN  cfg_reads' = Append(cfg_reads,
              [filename |-> "config.json", file |-> files["config.json"],
               raised |-> ConfigRaises(file),
               value |-> IF ConfigRaises(file) THEN <<>> ELSE AppConfig(file.data)])
    /\ UNCHANGED files
    /\ UNCHANGED <<botVars, orchVars, obsVars, agentVars, credVars, toolVars, shotVars, jobVars,
                 choiceVars,
                 statusVars,
                 accVars>>

\* get_profile, lines 180-187
get_profile ==
    /\ Len(cfg_reads) < MaxReads
    /\ LET file == ReadJson("profile.json")
       IN  cfg_reads' = Append(cfg_reads,
              [filename |-> "profile.json", file |-> files["profile.json"],
               raised |-> ProfileRaises(file),
               value |-> IF ProfileRaises(file) THEN <<>> ELSE UserProfile(file.data)])
    /\ UNCHANGED files
    /\ UNCHANGED <<botVars, orchVars, obsVars, agentVars, credVars, toolVars, shotVars, jobVars,
                 choiceVars,
                 statusVars,
                 accVars>>

\* ------------------------------------------ SQLiteJobApplicationRepository
\* a datetime: the instant it denotes and its UTC offset
Offsets == {0}   \* apply_to_job stores clock.now().astimezone(timezone.utc)
Datetimes == [utc : {1, 2}, offset : Offsets]
JobIds == {"rec-1", "rec-2"}
Reasons == {None, Some("")}
\* the JobApplicationRecord values the store is called with
JobRecords ==
    [id : JobIds,
     applied_at : {None} \cup {Some(d) : d \in Datetimes},
     failure_reason : Reasons]

\* _dt_to_iso: isoformat() writes the local time, then the offset
DtToIso(dt) ==
    IF dt = None THEN None ELSE Some(<<dt[1].utc + dt[1].offset, dt[1].offset>>)

\* _iso_to_dt: datetime.fromisoformat
IsoToDt(s) == [utc |-> s[1] - s[2], offset |-> s[2]]

\* `x or ""`
OrEmpty(x) == IF x = None \/ x = Some("") THEN Some("") ELSE x

\* `str(x) if x else None`
Truthy(x) == IF x = None \/ x = Some("") THEN None ELSE x

\* _record_to_row, the row add() inserts
RecordToRow(r) ==
    [id |-> r.id, applied_at |-> DtToIso(r.applied_at),
     failure_reason |-> OrEmpty(r.failure_reason)]

\* the columns update() sets
UpdateRow(row, r) ==
    [row EXCEPT !.applied_at = DtToIso(r.applied_at),
                !.failure_reason = r.failure_reason]

\* _row_to_record
RowToRecord(row) ==
    [id |-> row.id,
     applied_at |-> IF row.applied_at = None THEN None
                    ELSE Some(IsoToDt(row.applied_at[1])),
     failure_reason |-> Truthy(row.failure_reason)]

\* id TEXT PRIMARY KEY: the INSERT of add() fails when the id is stored
PrimaryKeyTaken_Never(rows, r) == FALSE
PrimaryKeyTaken(rows, r) == \E i \in 1..Len(rows) : rows[i].id = r.id

\* comparison of two TEXT values
TextLess(a, b) == a[1] < b[1] \/ (a[1] = b[1] /\ a[2] < b[2])

\* ORDER BY applied_at DESC lets x come before y: NULL is the smallest value
DescBefore_NullsFirst(x, y) ==
    x = None \/ (y # None /\ ~TextLess(x[1], y[1]))
DescBefore(x, y) ==
    y = None \/ (x # None /\ ~TextLess(x[1], y[1]))

\* the orders in which the SELECT of list_all may return the rows (rows with
\* equal applied_at come in any order)
RowOrders(rows) ==
    {p \in Permutations(1..Len(rows)) :
        \A i, j \in 1..Len(rows) :
            i < j => DescBefore(rows[p[i]].applied_at, rows[p[j]].applied_at)}

JobIdle ==
    /\ job_rows = <<>>
    /\ job_calls = <<>>

\* add, lines 36-43: sqlite3.IntegrityError on a stored id
add ==
    /\ Len(job_calls) < MaxRepoCalls
    /\ \E r \in JobRecords :
          IF PrimaryKeyTaken(job_rows, r)
          THEN /\ job_calls' = Append(job_calls,
                      [op |-> "add", rec |-> r, ok |-> FALSE, out |-> <<>>])
               /\ UNCHANGED job_rows
          ELSE /\ job_calls' = Append(job_calls,
                      [op |-> "add", rec |-> r, ok |-> TRUE, out |-> <<>>])
               /\ job_rows' = Append(job_rows, RecordToRow(r))
    /\ UNCHANGED <<botVars, orchVars, obsVars, agentVars, credVars, toolVars, shotVars, cfgVars,
                 choiceVars,
                 statusVars,
                 accVars>>

\* update, lines 45-62: UPDATE ... WHERE id=?, no row is no error
update ==
    /\ Len(job_calls) < MaxRepoCalls
    /\ \E r \in JobRecords :
          /\ job_calls' = Append(job_calls,
                [op |-> "update", rec |-> r, ok |-> TRUE, out |-> <<>>])
          /\ job_rows' = [i \in 1..Len(job_rows) |->
                            IF job_rows[i].id = r.id
                            THEN UpdateRow(job_rows[i], r) ELSE job_rows[i]]
    /\ UNCHANGED <<botVars, orchVars, obsVars, agentVars, credVars, toolVars, shotVars, cfgVars,
                 choiceVars,
                 statusVars,
                 accVars>>

\* get, lines 64-73: None when no row has the id
get ==
    /\ Len(job_calls) < MaxRepoCalls
    /\ \E id \in JobIds :
          job_calls' = Append(job_calls,
              [op |-> "get", rec |-> [id |-> id], ok |-> TRUE,
               out |-> IF \E i \in 1..Len(job_rows) : job_rows[i].id = id
                       THEN Some(RowToRecord(
                               job_rows[CHOOSE i \in 1..Len(job_rows) :
                                           job_rows[i].id = id]))
                       ELSE None])
    /\ UNCHANGED job_rows
    /\ UNCHANGED <<botVars, orchVars, obsVars, agentVars, credVars, toolVars, shotVars, cfgVars,
                 choiceVars, statusVars,
                 accVars>>

\* list_all, lines 75-81
list_all ==
    /\ Len(job_calls) < MaxRepoCalls
    /\ \E p \in RowOrders(job_rows) :
          job_calls' = Append(job_calls,
              [op |-> "list_all", rec |-> <<>>, ok |-> TRUE,
               out |-> [i \in 1..Len(job_rows) |-> RowToRecord(job_rows[p[i]])]])
    /\ UNCHANGED job_rows
    /\ UNCHANGED <<botVars, orchVars, obsVars, agentVars, credVars, toolVars, shotVars, cfgVars,
                 choiceVars,
                 statusVars,
                 accVars>>

\* ---------------------------------------------------------------- ask_choice
\* a string is the sequence of its characters
Chars == {"y", "n", ",", " "}
Strings(n) == UNION {[1..k -> Chars] : k \in 0..n}

\* str.strip()
RECURSIVE LStrip(_)
LStrip(s) == IF s # <<>> /\ Head(s) = " " THEN LStrip(Tail(s)) ELSE s
RECURSIVE RStrip(_)
RStrip(s) ==
    IF s # <<>> /\ s[Len(s)] = " " THEN RStrip(SubSeq(s, 1, Len(s) - 1)) ELSE s
Strip(s) == LStrip(RStrip(s))

\* str.split(",")
RECURSIVE Split(_)
Split(s) ==
    IF \E i \in 1..Len(s) : s[i] = ","
    THEN LET i == CHOOSE k \in 1..Len(s) :
                     s[k] = "," /\ \A m \in 1..(k - 1) : s[m] # ","
         IN  <<SubSeq(s, 1, i - 1)>> \o Split(SubSeq(s, i + 1, Len(s)))
    ELSE <<s>>

\* [item.strip() for item in reply.split(",") if item.strip()]
Picked(reply) ==
    LET items == Split(reply)
        stripped == [i \in 1..Len(items) |-> Strip(items[i])]
    IN  SelectSeq(stripped, LAMBDA x : x # <<>>)

InSeq(x, q) == \E i \in 1..Len(q) : q[i] = x

\* the option literals of a question, and the option lists asked
Literals == {<<"y">>, <<"n">>, <<"y", " ", "n">>}
OptionLists == UNION {[1..k -> Literals] : k \in 0..2}
\* what _wait_for_user_text returns: a stripped, non-empty text
Replies == {s \in Strings(MaxReplyLen) : s # <<>> /\ Strip(s) = s}

\* lines 250-254
Selected(options, allow_multiple, reply) ==
    IF allow_multiple
    THEN SelectSeq(options, LAMBDA item : InSeq(item, Picked(reply)))
    ELSE IF InSeq(reply, options) THEN <<reply>> ELSE <<options[1]>>

NoChoice == [options |-> <<>>, allow_multiple |-> FALSE, reply |-> <<>>]

ChoiceIdle ==
    /\ choice_pc = "idle"
    /\ choice_in = NoChoice
    /\ choice_out = <<>>
    /\ choice_sel = None

ChoiceStart ==
    /\ choice_pc = "called"
    /\ choice_in \in [options : OptionLists, allow_multiple : BOOLEAN,
                      reply : Replies]
    /\ choice_out = <<>>
    /\ choice_sel = None

\* ask_choice, lines 235-255
ask_choice ==
    /\ choice_pc = "called"
    /\ choice_pc' = "returned"
    /\ choice_out' =
          IF choice_in.options = <<>> THEN <<>>
          ELSE Selected(choice_in.options, choice_in.allow_multiple,
                        choice_in.reply)
    /\ UNCHANGED <<choice_in, choice_sel>>
    /\ UNCHANGED <<botVars, orchVars, obsVars, agentVars, credVars, toolVars,
                   shotVars, cfgVars, jobVars,
                 statusVars,
                 accVars>>

\* answer_questions, lines 42-44, for the response of a question it asked
\* (allow_multiple=False): selected_options[0] if there is one and it is not
\* "", is selected in the browser
SelectedOption(selected_options) ==
    IF selected_options # <<>> /\ selected_options[1] # <<>>
    THEN Some(selected_options[1]) ELSE None

answer_questions_option ==
    /\ choice_pc = "returned"
    /\ ~choice_in.allow_multiple
    /\ choice_pc' = "selected"
    /\ choice_sel' = SelectedOption(choice_out)
    /\ UNCHANGED <<choice_in, choice_out>>
    /\ UNCHANGED <<botVars, orchVars, obsVars, agentVars, credVars, toolVars,
                   shotVars, cfgVars, jobVars,
                 statusVars,
                 accVars>>

\* ------------------------------------------------ TelegramBot._handle_status
\* records[-10:]
StatusLimit == 10

\* the row of the i-th application: runs follow one another, so the i-th record
\* applied was applied at instant i; a run that failed has no applied_at
StatusRow(i, applied) ==
    [id |-> <<"rec", i>>,
     status |-> IF applied THEN "applied" ELSE "failed",
     applied_at |-> IF applied THEN DtToIso(Some([utc |-> i, offset |-> 0]))
                    ELSE None,
     failure_reason |-> IF applied THEN None ELSE Some("err")]

\* the tables /status is asked about: n applications, at most one of which
\* failed (so that no two rows tie on applied_at)
StatusTables ==
    {[i \in 1..n |-> StatusRow(i, i # k)] :
        n \in 0..MaxStored, k \in 0..MaxStored}

\* the place of row i in the result of list_all when no two rows tie
Rank(rows, i) ==
    1 + Cardinality({j \in 1..Len(rows) :
                        j # i /\ ~DescBefore(rows[i].applied_at,
                                             rows[j].applied_at)})

\* list_all on such a table: the one element of RowOrders
OrderedRows(rows) ==
    [k \in 1..Len(rows) |-> rows[CHOOSE i \in 1..Len(rows) : Rank(rows, i) = k]]

\* q[-n:]
LastN(q, n) == SubSeq(q, Max(1, Len(q) - n + 1), Len(q))

\* one line of the message: "- [status] company_name: job_url"
StatusLine(row) == [status |-> row.status, id |-> RowToRecord(row).id]

StatusIdle == status_sent = None

\* _handle_status, lines 196-202
handle_status ==
    /\ status_sent = None
    /\ LET listed == OrderedRows(job_rows)
           shown == LastN(listed, StatusLimit)
       IN  status_sent' =
              IF listed = <<>>
              THEN Some([text |-> "No applications yet.", lines |-> <<>>])
              ELSE Some([text |-> "Recent applications:",
                         lines |-> [i \in 1..Len(shown) |-> StatusLine(shown[i])]])
    /\ UNCHANGED <<botVars, orchVars, obsVars, agentVars, credVars, toolVars,
                   shotVars, cfgVars, jobVars, choiceVars,
                 accVars>>

\* ------------------------------------------ AccountFlowService.ensure_access
\* job.job_board_type, job.company_name (a string is the sequence of its
\* characters) and profile.email
BoardTypes == {None, Some(""), Some("lever")}
CompanyNames == {<<"A", " ", "b">>, <<"a", "-", "b">>, <<"A", "b">>}
Emails == {"user@example.com"}
\* with what the two detections of lines 37-38 return
AccountFlowInputs ==
    [job_board_type : BoardTypes, company_name : CompanyNames, email : Emails,
     login_required : BOOLEAN, guest_available : BOOLEAN]

\* str.lower()
Lower(s) == [i \in 1..Len(s) |-> IF s[i] = "A" THEN "a" ELSE s[i]]

\* str.replace(" ", "-")
Replace(s) == [i \in 1..Len(s) |-> IF s[i] = " " THEN "-" ELSE s[i]]

\* line 76: job.job_board_type or "unknown"
PortalOf_Raw(job_board_type) ==
    IF job_board_type = None THEN "None" ELSE job_board_type[1]
PortalOf(job_board_type) ==
    IF job_board_type = None \/ job_board_type = Some("") THEN "unknown"
    ELSE job_board_type[1]

\* line 77: job.company_name.lower().replace(" ", "-")
TenantOf(company_name) == Replace(Lower(company_name))

\* lines 74-82: the AccountCredential that is upserted
NewCredential(in, id, password, now) ==
    [id |-> id, portal |-> PortalOf(in.job_board_type),
     tenant |-> TenantOf(in.company_name), email |-> in.email,
     password |-> password, created_at |-> now, updated_at |-> now]

AccIdle ==
    /\ acc_pc = "idle"
    /\ acc_in = <<>>
    /\ acc_password = None
    /\ acc_ids = 0
    /\ acc_runs = 0

\* the flow raises: nothing after the failing call is executed
AccRaise ==
    /\ acc_pc' = "raised"
    /\ UNCHANGED <<acc_in, acc_password, acc_ids, acc_runs, credVars>>

AccStep(from, to) ==
    /\ acc_pc = from
    /\ \/ AccRaise
       \/ /\ acc_pc' = to
          /\ UNCHANGED <<acc_in, acc_password, acc_ids, acc_runs, credVars>>
    /\ UNCHANGED <<botVars, orchVars, obsVars, agentVars, toolVars, shotVars,
                   cfgVars, jobVars, choiceVars, statusVars>>

\* ensure_access is called (by apply_to_job, once per run)
ensure_access_call ==
    /\ acc_pc \in {"idle", "returned", "raised"}
    /\ acc_runs < MaxFlows
    /\ \E in \in AccountFlowInputs :
          acc_in' = [in |-> in, before |-> credentials]
    /\ acc_pc' = "detect"
    /\ acc_runs' = acc_runs + 1
    /\ acc_password' = None
    /\ UNCHANGED <<acc_ids, credVars>>
    /\ UNCHANGED <<botVars, orchVars, obsVars, agentVars, toolVars, shotVars,
                   cfgVars, jobVars, choiceVars, statusVars>>

\* lines 37-42: the two detections; no account is needed, or the password is
\* generated
ensure_access_detect ==
    /\ acc_pc = "detect"
    /\ \/ AccRaise
       \/ /\ ~acc_in.in.login_required \/ acc_in.in.guest_available
          /\ acc_pc' = "returned"
          /\ UNCHANGED <<acc_in, acc_password, acc_ids, acc_runs, credVars>>
       \/ /\ ~(~acc_in.in.login_required \/ acc_in.in.guest_available)
          /\ acc_ids' = acc_ids + 1
          /\ acc_password' = Some(<<"auto-", acc_ids + 1>>)
          /\ acc_pc' = "create"
          /\ UNCHANGED <<acc_in, acc_runs, credVars>>
    /\ UNCHANGED <<botVars, orchVars, obsVars, agentVars, toolVars, shotVars,
                   cfgVars, jobVars, choiceVars, statusVars>>

\* lines 43-50: email and password are filled in, the account is created
ensure_access_create == AccStep("create", "exists")

\* lines 52-62: when the account exists already: "Forgot Password", the
\* reset code is asked and filled in
ensure_access_reset_code == AccStep("exists", "otp")

\* lines 64-70: when a one-time code is required: it is asked and filled in
ensure_access_otp_code == AccStep("otp", "upsert")

\* lines 72-84: the credential is upserted (which may raise, the table is
\* then unchanged) and used_account=True returned
ensure_access_store ==
    /\ acc_pc = "upsert"
    /\ acc_ids' = acc_ids + 1
    /\ \/ /\ acc_pc' = "raised"
          /\ UNCHANGED <<acc_in, acc_password, acc_runs, credVars>>
       \/ /\ LET c == NewCredential(acc_in.in, <<"id-", acc_ids + 1>>,
                                    acc_password[1], acc_runs)
             IN  /\ ~IdTaken(credentials, c)
                 /\ credentials' = UpsertRows(credentials, c)
          /\ acc_pc' = "returned"
          /\ UNCHANGED <<acc_in, acc_password, acc_runs, cred_calls>>
    /\ UNCHANGED <<botVars, orchVars, obsVars, agentVars, toolVars, shotVars,
                   cfgVars, jobVars, choiceVars, statusVars>>

InfraIdle == CredIdle /\ ToolIdle /\ ShotIdle /\ CfgIdle /\ JobIdle /\ ChoiceIdle /\ StatusIdle /\ AccIdle

\* ------------------------------------------------------------ specification
Init == InitBot /\ AgentIdle /\ InfraIdle

Next ==
    \/ UserSends
    \/ run_start
    \/ run_poll
    \/ handle_update
    \/ handle_apply_accept
    \/ handle_apply_setup
    \/ handle_apply_start
    \/ handle_apply_returned
    \/ handle_apply_close
    \/ handle_apply_except
    \/ apply_to_job_begin
    \/ apply_to_job_load
    \/ apply_to_job_oauth
    \/ ensure_access
    \/ ensure_access_exists
    \/ ensure_access_reset
    \/ ensure_access_otp
    \/ ensure_access_otp_fill
    \/ ensure_access_upsert
    \/ apply_to_job_form
    \/ answer_questions_select
    \/ fill_personal_questions
    \/ fill_personal_questions_fill
    \/ apply_to_job_captcha
    \/ handle_if_present_fill
    \/ apply_to_job_submit
    \/ apply_to_job_except
    \/ wait_for_user_text

Spec == Init /\ [][Next]_vars

InitAgent == InitBot /\ AgentStart /\ InfraIdle

NextAgent ==
    \/ execute_task_llm
    \/ execute_task_done
    \/ execute_task_tool
    \/ execute_task_exceeded

SpecAgent == InitAgent /\ [][NextAgent]_vars

\* every awaited LLM call and tool execution completes, so the coroutine
\* keeps running until it returns or raises
SpecAgentFair == SpecAgent /\ WF_vars(NextAgent)

InitCred == InitBot /\ AgentIdle /\ InfraIdle

NextCred == upsert

SpecCred == InitCred /\ [][NextCred]_vars

InitTool ==
    InitBot /\ AgentIdle /\ CredIdle /\ ToolStart /\ ShotIdle /\ CfgIdle /\ JobIdle /\ ChoiceIdle /\ StatusIdle /\ AccIdle

NextTool == to_openai_tool

SpecTool == InitTool /\ [][NextTool]_vars

InitShot == InitBot /\ AgentIdle /\ InfraIdle

NextShot == save_screenshot

SpecShot == InitShot /\ [][NextShot]_vars

InitCfg ==
    InitBot /\ AgentIdle /\ CredIdle /\ ToolIdle /\ ShotIdle /\ CfgStart /\ JobIdle /\ ChoiceIdle /\ StatusIdle /\ AccIdle

NextCfg ==
    \/ write_config
    \/ write_profile
    \/ get_config
    \/ get_profile

SpecCfg == InitCfg /\ [][NextCfg]_vars

InitJob == InitBot /\ AgentIdle /\ InfraIdle

NextJob ==
    \/ add
    \/ update
    \/ get
    \/ list_all

SpecJob == InitJob /\ [][NextJob]_vars

InitChoice ==
    /\ InitBot /\ AgentIdle
    /\ CredIdle /\ ToolIdle /\ ShotIdle /\ CfgIdle /\ JobIdle
    /\ ChoiceStart /\ StatusIdle /\ AccIdle

NextChoice ==
    \/ ask_choice
    \/ answer_questions_option

SpecChoice == InitChoice /\ [][NextChoice]_vars

InitStatus ==
    /\ InitBot /\ AgentIdle
    /\ CredIdle /\ ToolIdle /\ ShotIdle /\ CfgIdle /\ ChoiceIdle
    /\ job_rows \in StatusTables /\ job_calls = <<>>
    /\ StatusIdle /\ AccIdle

NextStatus == handle_status

SpecStatus == InitStatus /\ [][NextStatus]_vars

InitAccess == InitBot /\ AgentIdle /\ InfraIdle

NextAccess ==
    \/ ensure_access_call
    \/ ensure_access_detect
    \/ ensure_access_create
    \/ ensure_access_reset_code
    \/ ensure_access_otp_code
    \/ ensure_access_store

SpecAccess == InitAccess /\ [][NextAccess]_vars

\* ------------------------------------------------------------------ claims

\* C1 (as claimed): record monotonicity. For every apply_to_job invocation
\* exactly one later update sets the added record to a terminal status, and a
\* record that has reached a terminal status is never updated again: no row
\* of the repository ever receives a second update() call.
C1_RecordMonotonicity ==
    \A i \in 1..Len(records) : updates[i] <= 1

C3_AtMostOneApply == inflight <= 1

\* an /apply arrived while an invocation was in flight and was consumed by it
\* as the answer to a question; the invocation is still running
C3_Witness ==
    /\ inflight = 1
    /\ applying
    /\ \E i \in 1..Len(answers) :
          /\ server[answers[i].id] = "apply"
          /\ answers[i].rid = run.record.id

\* C4: answers are delivered first-in first-out. No update is returned as an
\* answer twice, answers are returned in arrival order, and between two
\* successive answers of one invocation no text of the configured chat is
\* left out.
C4_AnswersFifo ==
    /\ \A i, j \in 1..Len(answers) : i < j => answers[i].id < answers[j].id
    /\ \A i \in 1..(Len(answers) - 1) :
          answers[i].rid = answers[i + 1].rid =>
              \A k \in (answers[i].id + 1)..(answers[i + 1].id - 1) :
                  ExtractText(server[k]) = None

\* one invocation has received two answers
C4_Witness ==
    \E i \in 1..(Len(answers) - 1) : answers[i].rid = answers[i + 1].rid

\* C5: applying is true from the acceptance of an /apply to the end of its
\* handler, covering the whole invocation, and false whenever the dispatcher
\* is outside the handler, however the handler ended.
C5_ApplyingReset ==
    /\ (hpc \in HandlerPcs) <=> applying
    /\ inflight > 0 => applying

\* the handler was left by an exception and the flag is down
C5_Witness ==
    /\ hpc = "crashed_apply"
    /\ ~applying
    /\ Len(records) > 0

\* C6 (as claimed): no exception raised while an accepted /apply is handled
\* leaves _handle_apply and ends the listener loop.
C6_DispatcherStaysAlive == hpc # "crashed_apply"


\* ------------------------------------------------------- agent loop claims
AgentFinished == apc \in {"returned", "raised"}

\* index of the first done call among the calls the model has emitted
FirstDone(calls) ==
    CHOOSE k \in 1..Len(calls) :
        /\ calls[k].name = "done"
        /\ \A j \in 1..(k - 1) : calls[j].name # "done"

HasDone(calls) == \E k \in 1..Len(calls) : calls[k].name = "done"

\* the recorded steps are the executed calls, one step per call, in order
StepsMatchExecuted ==
    /\ Len(steps) = Len(executed)
    /\ \A i \in 1..Len(steps) :
          /\ steps[i].tool_name = executed[i].name
          /\ steps[i].tool_args = executed[i].arguments

\* C7: when every LLM call and tool execution completes, execute_task makes at
\* most task.max_steps LLM calls, eventually finishes, and finishes with
\* exactly one outcome (the result of the first done call, the max-steps
\* failure, or a propagated exception) after which nothing more happens.
C7_TerminatesWithOneOutcome ==
    /\ [](llm_calls <= task.max_steps)
    /\ <>AgentFinished
    /\ []((apc = "returned") <=> (outcome \in {"done", "max_steps"}))
    /\ []((apc = "raised") <=> (outcome = "exception"))
    /\ [](outcome = "done" =>
            /\ HasDone(emitted)
            /\ result = DoneResult(emitted[FirstDone(emitted)], steps))
    /\ [][AgentFinished => FALSE]_vars

C7_Witness ==
    /\ outcome = "done"
    /\ task.max_steps = MaxSteps
    /\ llm_calls = task.max_steps

\* C8: done is terminal: the result carries reason = args.get("reason"),
\* data = args and the steps recorded so far; done is never handed to the tool
\* executor and gets no AgentStep; the calls before the first done have all
\* been executed, none after it has, and no further step is possible.
C8_DoneIsTerminal ==
    /\ \A i \in 1..Len(executed) : executed[i].name # "done"
    /\ \A i \in 1..Len(steps) : steps[i].tool_name # "done"
    /\ outcome = "done" =>
          LET k == FirstDone(emitted)
          IN  /\ result.reason = DictGet(emitted[k].arguments, "reason", None)
              /\ result.data = emitted[k].arguments
              /\ result.steps_taken = steps
              /\ executed = SubSeq(emitted, 1, k - 1)
              /\ StepsMatchExecuted
              /\ ~ENABLED NextAgent

C8_Witness ==
    /\ outcome = "done"
    /\ Len(executed) > 0
    /\ Len(emitted) > Len(executed) + 1
    /\ result.reason = Some("why")

\* C9: when the budget runs out without a done call the result has status
\* "failed", the reason names task.max_steps, and steps_taken holds a step for
\* every call executed in the run; a run that returns without a done call
\* returns this result.
C9_MaxStepsFailure ==
    /\ outcome = "max_steps" =>
          /\ result.status = Some("failed")
          /\ result.reason = Some(MaxStepsReason(task.max_steps))
          /\ result.steps_taken = steps
          /\ StepsMatchExecuted
          /\ executed = emitted
          /\ llm_calls = task.max_steps
    /\ (apc = "returned" /\ ~HasDone(emitted)) => outcome = "max_steps"

C9_Witness ==
    /\ outcome = "max_steps"
    /\ task.max_steps = MaxSteps
    /\ Len(result.steps_taken) >= 2

\* C10: the step_number values of the returned steps_taken are 0, 1, ..., n-1
\* in order, without gaps or repeats.
C10_StepNumbering ==
    apc = "returned" =>
        \A i \in 1..Len(result.steps_taken) :
            result.steps_taken[i].step_number = i - 1


\* ------------------------------------------------------------ history claims
IsToolCallEntry(m) == "tool_calls" \in DOMAIN m
IsToolResultEntry(m) == m.role = "tool"

\* the history without the seed and the text-only assistant entries
ToolEntries(msgs) ==
    SelectSeq(msgs, LAMBDA m : IsToolCallEntry(m) \/ IsToolResultEntry(m))

\* the history holds, for the i-th recorded step, the i-th pair of entries:
\* the call record, then at once the result record with the same id
HistoryPairsSteps ==
    LET es == ToolEntries(messages)
    IN  /\ Len(es) = 2 * Len(steps)
        /\ \A i \in 1..Len(steps) :
              /\ IsToolCallEntry(es[2 * i - 1])
              /\ es[2 * i - 1].tool_calls[1].name = steps[i].tool_name
              /\ es[2 * i - 1].tool_calls[1].arguments = steps[i].tool_args
              /\ IsToolResultEntry(es[2 * i])
              /\ es[2 * i].tool_call_id = es[2 * i - 1].tool_calls[1].id
              /\ es[2 * i].content = Some(steps[i].tool_result)
        /\ \A j \in 1..Len(messages) :
              IsToolCallEntry(messages[j]) =>
                  /\ j < Len(messages)
                  /\ IsToolResultEntry(messages[j + 1])

HistoryAppendOnly ==
    /\ Len(messages') >= Len(messages)
    /\ SubSeq(messages', 1, Len(messages)) = messages

\* C11: calls are executed in the order the model emitted them; every executed
\* call that returned has appended its call record immediately followed by its
\* result record (same call id, the tool's result text), in execution order;
\* the history begins with the system and user messages and only ever grows
\* at its end.
C11_HistoryInOrder ==
    /\ [](executed = SubSeq(emitted, 1, Len(executed)))
    /\ [](/\ Len(steps) <= Len(executed)
          /\ Len(executed) <= Len(steps) + 1
          /\ \A i \in 1..Len(steps) :
                /\ steps[i].tool_name = executed[i].name
                /\ steps[i].tool_args = executed[i].arguments)
    /\ [](HistoryPairsSteps)
    /\ [](/\ Len(messages) >= 2
          /\ messages[1].role = "system"
          /\ messages[2].role = "user")
    /\ [][HistoryAppendOnly]_vars

C11_Witness ==
    /\ Len(steps) >= 2
    /\ steps[1].tool_name # steps[2].tool_name
    /\ steps[1].step_number = steps[2].step_number
    /\ \E j \in 1..Len(messages) :
          messages[j].role = "assistant" /\ ~IsToolCallEntry(messages[j])


\* C12: an exception raised by an LLM call or by a tool execution leaves
\* execute_task: no AgentResult is produced, and no LLM call or tool execution
\* follows it.
C12_ExceptionsPropagate ==
    outcome = "exception" =>
        /\ apc = "raised"
        /\ result = NoResult
        /\ ~ENABLED execute_task_llm
        /\ ~ENABLED execute_task_tool
        /\ ~ENABLED NextAgent

C12_Witness ==
    /\ outcome = "exception"
    /\ Len(steps) >= 1
    /\ Len(executed) = Len(steps) + 1
    /\ ci < Len(response)
    /\ llm_calls = 2


\* ------------------------------------------------- orchestrator claims (2)
\* C13: the terminal record follows the outcome of the attempt: a submitted
\* application is applied with applied_at = clock.now(); a skipped one carries
\* the reported reason or, none being reported, "Debug mode: final submit
\* skipped"; a failed one carries a failure reason.
C13_ResultMapping ==
    \A i \in 1..Len(records) :
        /\ records[i].status = "applied" => records[i].applied_at = Some("now")
        /\ records[i].status = "skipped" =>
              records[i].failure_reason = Some("Debug mode: final submit skipped")
        /\ records[i].status = "failed" => records[i].failure_reason # None

\* C14: once a step of the attempt has raised into the except clause of
\* apply_to_job, the call ends by returning (never by raising), with the
\* record updated to failed and failure_reason = str(exc).
C14_ExceptionBecomesFailedRecord ==
    [][(opc = "o_except" /\ opc' # "o_except") =>
          /\ opc' = "o_ret"
          /\ \E i \in 1..Len(records') :
                /\ records'[i].id = run.record.id
                /\ records'[i].status = "failed"
                /\ records'[i].failure_reason = Some(run.reason)]_vars


\* -------------------------------------------------- credential store claims
CallsFor(k) == SelectSeq(cred_calls, LAMBDA x : KeyOf(x.cred) = k)
DoneCallsFor(k) == SelectSeq(cred_calls, LAMBDA x : KeyOf(x.cred) = k /\ x.ok)
RowsFor(k) == {r \in credentials : KeyOf(r) = k}
AllKeys == {KeyOf(c) : c \in Credentials}
Last(q) == q[Len(q)]

C16_SchemaCompleteness ==
    tpc = "returned" =>
        LET ps == tool_def.parameters
            req == {openai_tool.required[i] : i \in 1..Len(openai_tool.required)}
        IN  /\ openai_tool.name = tool_def.name
            /\ DOMAIN openai_tool.properties = {ps[i][1] : i \in 1..Len(ps)}
            /\ req \subseteq {ps[i][1] : i \in 1..Len(ps)}
            /\ \A i \in 1..Len(ps) :
                  LET name == ps[i][1]
                      schema == ps[i][2]
                      prop == openai_tool.properties[name]
                  IN  /\ (name \in req) <=> ("default" \notin DOMAIN schema)
                      /\ DOMAIN prop = DOMAIN schema \ {"default"}
                      /\ \A k \in DOMAIN prop : prop[k] = schema[k]

C16_Witness ==
    /\ tpc = "returned"
    /\ Len(tool_def.parameters) = 2
    /\ "default" \in DOMAIN tool_def.parameters[1][2]
    /\ tool_def.parameters[1][2]["default"] = 0
    /\ "type" \in DOMAIN tool_def.parameters[1][2]
    /\ "default" \notin DOMAIN tool_def.parameters[2][2]
    /\ Len(openai_tool.required) = 1


\* ------------------------------------------------------- screenshot claims
\* the calls for one run_id that were given a counter value, in call order
CountedCalls(r) == SelectSeq(shot_calls, LAMBDA c : c.run_id = r /\ c.count # 0)
ShotCallsFor(r) == SelectSeq(shot_calls, LAMBDA c : c.run_id = r)

\* C17: for every run_id the counters handed out are 1, 2, 3, ... in call
\* order, whatever calls for other run_ids come in between; the path a call
\* returns carries the counter the call was given; and when no call for the
\* run_id has failed, its k-th call has counter k.
C17_ScreenshotNumbering ==
    \A r \in RunIds :
        /\ \A k \in 1..Len(CountedCalls(r)) :
              /\ CountedCalls(r)[k].count = k
              /\ CountedCalls(r)[k].path # None =>
                    CountedCalls(r)[k].path[1].count = k
        /\ (\A k \in 1..Len(ShotCallsFor(r)) : ShotCallsFor(r)[k].path # None) =>
              \A k \in 1..Len(ShotCallsFor(r)) :
                  ShotCallsFor(r)[k].path[1].count = k

C17_Witness ==
    /\ Len(shot_calls) = 3
    /\ shot_calls[1].run_id = "run-1" /\ shot_calls[1].path # None
    /\ shot_calls[2].run_id = "run-2" /\ shot_calls[2].path # None
    /\ shot_calls[3].run_id = "run-1" /\ shot_calls[3].path # None
    /\ shot_calls[3].path[1].count = 2


\* ------------------------------------------------------------ config claims
\* C18: every get_config / get_profile call answers from the file as it is
\* on disk at the time of the call: it raises exactly when the file cannot be
\* read or lacks a required key, and otherwise every field it returns is the
\* value the file holds then, so a write between two reads shows in the second.
C18_HotReload ==
    \A i \in 1..Len(cfg_reads) :
        LET r == cfg_reads[i]
            d == r.file.data
        IN  IF r.filename = "config.json"
            THEN /\ r.raised <=> (~r.file.readable \/ "BOT_TOKEN" \notin DOMAIN d)
                 /\ ~r.raised =>
                       /\ r.value.bot_token = d["BOT_TOKEN"]
                       /\ r.value.telegram_chat_id = d["TELEGRAM_CHAT_ID"]
                       /\ r.value.debug_mode =
                             ("debug_mode" \in DOMAIN d /\ d["debug_mode"] # "false")
            ELSE /\ r.raised <=> (~r.file.readable \/ "name" \notin DOMAIN d)
                 /\ ~r.raised =>
                       /\ r.value.full_name = d["name"]
                       /\ r.value.email = d["email"]

C18_Witness ==
    /\ Len(cfg_reads) = 2
    /\ cfg_reads[1].filename = "config.json" /\ ~cfg_reads[1].raised
    /\ cfg_reads[2].filename = "config.json" /\ ~cfg_reads[2].raised
    /\ cfg_reads[1].value.debug_mode /\ ~cfg_reads[2].value.debug_mode
    /\ cfg_reads[1].file # cfg_reads[2].file


\* ------------------------------------------------------- dispatcher claims (2)
\* close() calls made on the handler's browser once the step leaving
\* _handle_apply is done (the close of lines 186-189 may be part of that step)
ClosesAtExit == hloc.closes + (IF hpc = "h_close" THEN 1 ELSE 0)

\* C19: when _handle_apply ends, by returning or by raising, a browser it
\* obtained has been closed exactly once.
C19_BrowserClosedOnce ==
    [][(hpc \in HandlerPcs /\ hpc' \notin HandlerPcs /\ hloc.browser) =>
          ClosesAtExit = 1]_vars

\* the dispatcher is handling a /apply that one of the two guards rejects
RejectingApply ==
    /\ hpc = "l_iter"
    /\ ExtractText(server[Head(batch)]) = Some("apply")
    /\ (last_url = None \/ applying)

\* C20: the step that handles a rejected /apply starts no application, adds
\* no record, makes no browser, and leaves last_url and applying as they
\* were; the handler returns once the rejection message is sent, or the send
\* raises.
C20_RejectedApplyFrame ==
    [][(RejectingApply /\ batch' # batch) =>
          /\ last_url' = last_url
          /\ applying' = applying
          /\ records' = records
          /\ inflight' = inflight
          /\ opc' = opc
          /\ next_id' = next_id
          /\ hloc' = hloc
          /\ hpc' \in {"l_poll", "l_iter", "crashed_reject"}]_vars

\* a URL, an accepted /apply whose run asked nothing, then a /apply that was
\* dispatched and rejected for want of a URL
C20_Witness ==
    /\ hpc = "l_poll"
    /\ server = <<"url", "apply", "apply">>
    /\ offset = 4
    /\ last_url = None
    /\ ~applying
    /\ Len(records) = 1
    /\ answers = <<>>


\* ------------------------------------------ application-record store claims
JobRowIds == {job_rows[i].id : i \in 1..Len(job_rows)}
LastJobCall == job_calls[Len(job_calls)]

\* C21: add(r) with an id that is already stored fails and leaves the stored
\* table as it was; after any sequence of add and update calls the store holds
\* at most one record per id.
C21_AddDuplicateFails ==
    /\ [](\A i, j \in 1..Len(job_rows) :
             job_rows[i].id = job_rows[j].id => i = j)
    /\ [][(/\ Len(job_calls') = Len(job_calls) + 1
           /\ job_calls'[Len(job_calls')].op = "add"
           /\ job_calls'[Len(job_calls')].rec.id \in JobRowIds)
          => (/\ ~job_calls'[Len(job_calls')].ok
              /\ job_rows' = job_rows)]_vars

C21_Witness ==
    /\ Len(job_calls) = 3
    /\ job_calls[1].op = "add" /\ job_calls[1].ok
    /\ job_calls[2].op = "update" /\ job_calls[2].rec.id = job_calls[1].rec.id
    /\ job_calls[3].op = "add" /\ ~job_calls[3].ok
    /\ job_calls[3].rec.id = job_calls[1].rec.id
    /\ job_calls[3].rec.applied_at # job_calls[2].rec.applied_at
    /\ Len(job_rows) = 1

\* C22: list_all() returns every stored record exactly once, latest applied_at
\* first, and the records without applied_at after all those with one.
C22_ListAllOrdered ==
    (job_calls # <<>> /\ LastJobCall.op = "list_all") =>
        LET out == LastJobCall.out
        IN  /\ Len(out) = Len(job_rows)
            /\ \A i \in 1..Len(job_rows) :
                  Cardinality({j \in 1..Len(out) :
                                  out[j] = RowToRecord(job_rows[i])}) = 1
            /\ \A i, j \in 1..Len(out) :
                  i < j =>
                     /\ out[i].applied_at = None => out[j].applied_at = None
                     /\ (out[i].applied_at # None /\ out[j].applied_at # None)
                           => out[i].applied_at[1].utc >= out[j].applied_at[1].utc

C22_Witness ==
    /\ Len(job_calls) = 3
    /\ LastJobCall.op = "list_all"
    /\ Len(LastJobCall.out) = 2
    /\ job_rows[1].applied_at = None
    /\ job_rows[2].applied_at # None
    /\ LastJobCall.out[1].id = job_rows[2].id

\* -------------------------------------------------------- ask_choice claims
\* C23 (as claimed): for a non-empty option list, single-select returns
\* [reply] when the reply is an option literal and [options[0]] otherwise;
\* multi-select returns the options found among the comma-separated, trimmed
\* reply items; in both modes option 0 is selected when nothing matches, so
\* the result is a non-empty sub-list of the options.
C23_ChoiceNeverEmpty ==
    (choice_pc = "returned" /\ choice_in.options # <<>>) =>
        LET options == choice_in.options
            reply == choice_in.reply
            matching == SelectSeq(options, LAMBDA o : InSeq(o, Picked(reply)))
        IN  /\ choice_out # <<>>
            /\ \A i \in 1..Len(choice_out) : InSeq(choice_out[i], options)
            /\ ~choice_in.allow_multiple =>
                  choice_out = IF InSeq(reply, options) THEN <<reply>>
                               ELSE <<options[1]>>
            /\ choice_in.allow_multiple =>
                  choice_out = IF matching # <<>> THEN matching
                               ELSE <<options[1]>>

\* ---------------------------------------------------- configured-chat claims
\* C24: only the configured chat is heard. An update of another chat is never
\* the answer returned to an ask_* call and never the stored URL, and the
\* dispatcher step that handles it starts no run, makes no call that can fail
\* (so sends no reply) and changes nothing but the polling offset and its
\* position in the polled batch.
C24_OnlyConfiguredChat ==
    /\ [](\A i \in 1..Len(answers) :
             Str(Update(server[answers[i].id]).chat_id) = Str(ChatId))
    /\ [](last_url # None =>
             Str(Update(server[last_url[1]]).chat_id) = Str(ChatId))
    /\ [][(/\ hpc = "l_iter"
           /\ Str(Update(server[Head(batch)]).chat_id) # Str(ChatId)
           /\ batch' = Tail(batch))
          => (/\ hpc' \in ListenerPcs
              /\ offset' = Max(offset, Head(batch) + 1)
              /\ UNCHANGED <<server, last_url, applying, hloc>>
              /\ UNCHANGED <<orchVars, obsVars>>)]_vars

C24_Witness ==
    /\ server = <<"url", "other", "apply", "other">>
    /\ opc \in AskPcs
    /\ Len(records) = 1
    /\ answers = <<>>
    /\ offset = 5

\* ------------------------------------------------------------ debug claims
\* the stored row of the record the current invocation added
RunRow == CHOOSE r \in {records[i] : i \in 1..Len(records)} : r.id = run.record.id
RunEnded == opc \in {"o_ret", "o_raised"} /\ run.record.id # 0

\* C25 (as claimed): a debug run never clicks "Apply", and a debug run that
\* has passed every earlier stage (it has reached the is_debug test after
\* account access, form filling, user questions and captcha) ends with its
\* record skipped and a failure_reason.
C25_DebugNeverSubmits ==
    /\ run.is_debug => run.clicks = 0
    /\ (RunEnded /\ run.is_debug /\ run.final) =>
          /\ RunRow.status = "skipped"
          /\ RunRow.failure_reason # None

\* C26 (as claimed): a debug run whose record has reached a terminal status
\* has written end-of-run metadata exactly once, with mode "debug" and the
\* record's status as outcome; a non-debug run has written none.
C26_DebugMetadataOnce ==
    (RunEnded /\ RunRow.status \in Terminal) =>
        IF run.is_debug
        THEN /\ Len(run.metadata) = 1
             /\ run.metadata[1].mode = "debug"
             /\ run.metadata[1].outcome = RunRow.status
        ELSE run.metadata = <<>>

\* ------------------------------------------------------- tool-call claims
\* a call with a name that is not declared has been passed to execute
UndeclaredExecuted ==
    \E i \in 1..Len(executed) : executed[i].name \notin DeclaredTools

\* C27 (as claimed): a tool call whose name is not declared is an
\* unrecoverable protocol error: once it has been passed to execute the run is
\* over, with an exception or with status failed, and the loop does not go on.
C27_UnknownToolFails ==
    UndeclaredExecuted =>
        /\ AgentFinished
        /\ outcome = "exception" \/ result.status = Some("failed")

\* C28 (as claimed): the status execute_task returns is success, failed or
\* skipped whatever arguments the model passes to done; a done call with no
\* status, a null status or an empty status returns success.
C28_StatusDomain ==
    apc = "returned" =>
        /\ result.status \in {Some("success"), Some("failed"), Some("skipped")}
        /\ outcome = "done" =>
              LET args == emitted[FirstDone(emitted)].arguments
              IN  DictGet(args, "status", None) \in {None, Some("")}
                     => result.status = Some("success")

\* C29 (as claimed): step budget. The number of tool executions never exceeds
\* task.max_steps, and a run that returns without a done call returns failed
\* after exactly task.max_steps tool executions.
C29_StepBudget ==
    /\ Len(executed) <= task.max_steps
    /\ (apc = "returned" /\ ~HasDone(emitted)) =>
          /\ result.status = Some("failed")
          /\ Len(executed) = task.max_steps

\* C30: executing a call whose name is not declared raises nothing, uses
\* neither the page nor the human channel, and gives the string
\* "Unknown tool: <name>", which is recorded as the step's result and appended
\* to the history as the tool result the model sees next.
C30_UnknownToolBenign ==
    [][(/\ Len(executed') = Len(executed) + 1
        /\ executed'[Len(executed')].name \notin DeclaredTools)
       => LET name == executed'[Len(executed')].name
          IN  /\ apc' # "raised"
              /\ outcome' = outcome
              /\ touched' = touched
              /\ Len(steps') = Len(steps) + 1
              /\ steps'[Len(steps')].tool_result = <<"Unknown tool: ", name>>
              /\ Len(messages') = Len(messages) + 2
              /\ messages'[Len(messages')].role = "tool"
              /\ messages'[Len(messages')].content
                    = Some(<<"Unknown tool: ", name>>)]_vars

C30_Witness ==
    /\ Len(executed) = 2
    /\ executed[1].name = "nonexistent"
    /\ executed[2].name = "click"
    /\ Len(steps) = 2
    /\ steps[1].tool_result = <<"Unknown tool: ", "nonexistent">>
    /\ touched = <<"page">>
    /\ apc = "loop"

\* ------------------------------------------------------- stored-URL claims
\* the dispatcher is about to handle an /apply of the configured chat
AtApply == hpc = "l_iter" /\ ExtractText(server[Head(batch)]) = Some("apply")

\* C31: an accepted /apply runs against the URL stored last and clears
\* last_url; last_url is set again only when the dispatcher handles a URL
\* message, however the run ends; and an /apply handled while no URL is
\* stored starts no run.
C31_UrlClearedByApply ==
    [][/\ (AtApply /\ last_url # None /\ batch' = Tail(batch))
          => (/\ applying' /\ hpc' = "h_setup"
              /\ hloc'.url = last_url[1]
              /\ last_url' = None)
       /\ (AtApply /\ last_url = None /\ batch' = Tail(batch))
          => (/\ hpc' \in ListenerPcs \cup {"crashed_reject"}
              /\ UNCHANGED <<last_url, applying, hloc>>
              /\ UNCHANGED <<orchVars, obsVars>>)
       /\ (last_url' # last_url /\ last_url' # None)
          => (/\ hpc = "l_iter"
              /\ ExtractText(server[Head(batch)]) = Some("url")
              /\ last_url' = Some(Head(batch)))]_vars

\* a run has ended failed, and the /apply sent after it was handled by the
\* dispatcher without a second run
C31_Witness ==
    /\ server = <<"url", "url", "apply", "apply">>
    /\ hpc = "l_poll"
    /\ offset = 5
    /\ Len(records) = 1
    /\ records[1].job_url = 2
    /\ records[1].status = "failed"
    /\ answers = <<>>
    /\ last_url = None


\* ------------------------------------------------------------ /status claims
\* the ids of the lines of the message /status sent
StatusShown == {status_sent[1].lines[i].id : i \in 1..Len(status_sent[1].lines)}

\* the ids of the n applications made last
MostRecent(n) ==
    {job_rows[i].id : i \in Max(1, Len(job_rows) - n + 1)..Len(job_rows)}

\* C32: /status names at most 10 records, and when more than 10 are stored
\* the records it names are the 10 most recent applications
C32_StatusShowsMostRecent ==
    status_sent # None =>
        /\ Len(status_sent[1].lines) <= StatusLimit
        /\ Len(job_rows) > StatusLimit => StatusShown = MostRecent(StatusLimit)

\* ------------------------------------------------------- round-trip claims
\* call n stored a record and call n + 1 read the same id back
ReadBack(n) ==
    /\ n + 1 <= Len(job_calls)
    /\ job_calls[n].op \in {"add", "update"} /\ job_calls[n].ok
    /\ job_calls[n + 1].op = "get"
    /\ job_calls[n + 1].rec.id = job_calls[n].rec.id
    /\ job_calls[n + 1].out # None

\* C33: get(r.id) right after add(r) or update(r) returns a record equal to r
\* in every field: None and "" are kept apart and applied_at is preserved
C33_RoundTrip ==
    \A n \in 1..Len(job_calls) :
        ReadBack(n) => job_calls[n + 1].out = Some(job_calls[n].rec)

\* ------------------------------------------------------ account-flow claims
\* the key the claim names for the flow's job and profile
ClaimedKey ==
    LET in == acc_in.in
    IN  <<IF in.job_board_type \in {None, Some("")} THEN "unknown"
          ELSE in.job_board_type[1],
          [i \in 1..Len(in.company_name) |->
              CASE in.company_name[i] = " " -> "-"
                [] in.company_name[i] = "A" -> "a"
                [] OTHER -> in.company_name[i]],
          in.email>>

AccountNeeded == acc_in.in.login_required /\ ~acc_in.in.guest_available

\* C34: a flow that ends has upserted a credential exactly when login was
\* required, guest apply unavailable and the flow completed; the row has the
\* key (job_board_type or "unknown", lower-cased dashed company name, email)
\* and rows with other keys are untouched; in every other case, and while the
\* flow has not reached the upsert, the store is as it was at the call
C34_CredentialUpsert ==
    /\ acc_pc \in {"detect", "create", "exists", "otp", "upsert", "raised"}
          => credentials = acc_in.before
    /\ (acc_pc = "returned" /\ ~AccountNeeded) => credentials = acc_in.before
    /\ (acc_pc = "returned" /\ AccountNeeded)
          => /\ \E c \in credentials :
                   /\ KeyOf(c) = ClaimedKey
                   /\ c.password = acc_password[1]
             /\ {c \in credentials : KeyOf(c) # ClaimedKey}
                   = {c \in acc_in.before : KeyOf(c) # ClaimedKey}
             /\ Cardinality({c \in credentials : KeyOf(c) = ClaimedKey}) = 1

\* the second flow of a board without type, for a company name with a capital
\* and a space, has replaced the password the first flow stored for the key
C34_Witness ==
    /\ acc_pc = "returned" /\ acc_runs = 2 /\ AccountNeeded
    /\ acc_in.in.job_board_type = None
    /\ acc_in.in.company_name = <<"A", " ", "b">>
    /\ \E c \in acc_in.before : KeyOf(c) = ClaimedKey
    /\ Cardinality(credentials) = 1

\* ------------------------------------------------------ final-submit claims
\* the current invocation has added its record
HasRow == \E i \in 1..Len(records) : records[i].id = run.record.id
\* the failure reasons of an OAuth-only login and of an image captcha
NoSubmitReasons ==
    {Some("OAuth-only login cannot be automated"),
     Some("Image-based captcha prevents automation")}

\* C35: "Apply" is clicked at most once per invocation, while the record is
\* still pending, and only at the end of the chain account access -> form and
\* work-authorization questions -> personal questions -> captcha; a record is
\* marked failed for an OAuth-only login or an image captcha by a run that
\* has not clicked, the image-captcha failure being decided before any
\* captcha question is sent; a record becomes applied only in a run that has
\* clicked
C35_SubmitOnceAtTheEnd ==
    [][/\ run.clicks <= 1
       /\ run'.clicks > run.clicks
             => /\ opc = "o_submit" /\ run.clicks = 0 /\ run'.record = run.record
                /\ HasRow /\ RunRow.status = "pending"
       /\ (opc' = "o_submit" /\ opc # "o_submit")
             => opc \in {"o_captcha", "got_captcha"}
       /\ (opc' \in {"o_captcha", "ask_captcha"} /\ opc' # opc)
             => opc \in {"o_pq", "got_pq", "o_captcha"}
       /\ (opc' \in {"o_pq", "ask_pq"} /\ opc' # opc)
             => opc \in {"o_form", "got_wa", "o_pq", "got_pq"}
       /\ (opc' \in {"o_form", "ask_wa"} /\ opc' # opc)
             => opc \in {"o_access", "o_upsert", "o_form", "got_wa"}
       /\ (opc' = "o_access" /\ opc' # opc) => opc = "o_oauth"
       /\ (records' # records /\ HasRow' /\ RunRow'.status = "applied")
             => run'.clicks = 1
       /\ (records' # records /\ HasRow'
             /\ RunRow'.failure_reason \in NoSubmitReasons)
             => run'.clicks = 0 /\ opc \in {"o_oauth", "o_captcha"}]_vars

\* a run that asked the user for a captcha text has clicked "Apply" and
\* returned its record applied
C35_Witness ==
    /\ opc = "o_ret" /\ run.clicks = 1 /\ HasRow
    /\ RunRow.status = "applied"
    /\ Len(answers) = 1 /\ answers[1].rid = run.record.id

\* --------------------------------------------------- message-routing claims
\* update id has been returned to the orchestrator as the answer of an ask_*
Answered(id) == \E i \in 1..Len(answers) : answers[i].id = id

\* C36: a text message of the configured chat is consumed once: the
\* dispatcher does not handle (as command, URL or unrecognized text) a
\* message that was returned as the answer of a question, and no message is
\* returned as an answer twice
C36_ConsumedOnce ==
    [][/\ (hpc = "l_iter" /\ batch' = Tail(batch)
             /\ ExtractText(server[Head(batch)]) # None)
          => ~Answered(Head(batch))
       /\ \A i, j \in 1..Len(answers) :
             answers[i].id = answers[j].id => i = j]_vars

\* ----------------------------------------------------------- call-id claims
\* the positions of the tool results in the history
ToolResults == {i \in 1..Len(messages) : messages[i].role = "tool"}

\* C37: the call ids call_{step}_{name} of the executed tool calls of a run
\* are pairwise distinct
C37_CallIdsDistinct ==
    \A i, j \in ToolResults :
        messages[i].tool_call_id = messages[j].tool_call_id => i = j

\* ------------------------------------------------ work-authorization claims
\* C38: the option answer_questions selects in the browser is the option
\* literal the user sent as the reply, and nothing is selected when the reply
\* is none of the options
C38_SelectedIsUserProvided ==
    choice_pc = "selected" =>
        /\ choice_sel # None => choice_sel[1] = choice_in.reply
        /\ ~InSeq(choice_in.reply, choice_in.options) => choice_sel = None

\* ------------------------------------------------------ pending-record claims
\* C39: once apply_to_job has returned or raised, the record it added is not
\* pending
C39_NoPendingAfterEnd ==
    (opc \in {"o_ret", "o_raised"} /\ HasRow) => RunRow.status # "pending"

\* --------------------------------------------------- terminal-update claims
\* C40: when apply_to_job returns, the returned record differs from the
\* pending record it added in status, applied_at and failure_reason only,
\* its debug_run_id is the run id exactly in a debug run, and it equals the
\* record the repository holds under its id
C40_TerminalUpdateFrame ==
    opc = "o_ret" =>
        /\ run.returned # None /\ HasRow
        /\ run.returned[1].id = run.record.id
        /\ run.returned[1].job_url = run.record.job_url
        /\ run.returned[1].debug_run_id = run.record.debug_run_id
        /\ run.record.debug_run_id =
              IF run.is_debug THEN Some(run.run_id) ELSE None
        /\ run.returned[1].status \in Terminal
        /\ RepoGet(records, run.record.id) = run.returned[1]
=============================================================================
